---- MODULE Spec2Model ----
(***************************************************************************)
(* Subscription billing of the AI media application: the payment router   *)
(* (src/lib/server/payment-router.ts), the Opaybd gateway service          *)
(* (src/lib/server/opaybd.ts) and the usage quota checked by the           *)
(* generation routes.                                                      *)
(*                                                                         *)
(* A timestamp (a JavaScript Date) is a record [day, ms]: the day number   *)
(* counted from 2024-01-01 (UTC) and the millisecond within that day, so   *)
(* getTime() = day * DayMs + ms relative to that epoch.                    *)
(***************************************************************************)
EXTENDS Integers, Sequences, FiniteSets, TLC

VARIABLES now, settings, users, subscriptions, paymentHistory, pricingPlans,
          usageTracking, pendingTracks, trackLog, media, storage, inflight, ret

vars == <<now, settings, users, subscriptions, paymentHistory, pricingPlans,
          usageTracking, pendingTracks, trackLog, media, storage, inflight, ret>>

\* the usage counters, the detached trackUsage calls still running, and the
\* record of the trackUsage calls that have completed
usageVars == <<usageTracking, pendingTracks, trackLog>>

\* the rows of the media tables (transcriptions, sound effects, audio) and
\* the paths of the objects held by the storage service
mediaVars == <<media, storage>>

\* the calls in progress: a call that has been started and has not yet
\* returned is held here between two of its awaits
Procs == {"p1", "p2"}

IdleCall == [op |-> "idle"]

NoCalls == [p \in Procs |-> IdleCall]

(***************************************************************************)
(* Bounds of the model.                                                    *)
(***************************************************************************)
\* how many payment-history rows a run may accumulate
MaxPayments == 2
\* the largest monthly counter value and plan limit explored
MaxCount == 2

(***************************************************************************)
(* Dates.                                                                  *)
(***************************************************************************)
\* 1000 * 60 * 60 * 24, the divisor of checkRenewalRequired
DayMs == 86400000

NULL == "null"
UNDEFINED == "undefined"

\* a number that may be null or undefined: Given(v), or Absent
Given(v) == [given |-> TRUE, value |-> v]
Absent == [given |-> FALSE, value |-> 0]

IsLeap(y) == (y % 4 = 0 /\ y % 100 # 0) \/ y % 400 = 0

DaysInMonth(y, m) ==
    IF m = 1 THEN (IF IsLeap(y) THEN 29 ELSE 28)
    ELSE IF m \in {3, 5, 8, 10} THEN 30 ELSE 31

DaysInYear(y) == IF IsLeap(y) THEN 366 ELSE 365

RECURSIVE DaysBeforeYear(_)
DaysBeforeYear(y) == IF y <= 2024 THEN 0 ELSE DaysBeforeYear(y - 1) + DaysInYear(y - 1)

RECURSIVE DaysBeforeMonth(_, _)
DaysBeforeMonth(y, m) == IF m = 0 THEN 0 ELSE DaysBeforeMonth(y, m - 1) + DaysInMonth(y, m - 1)

\* new Date(y, m, d, ...ms): months past December and days past the end of
\* the month carry over into the following year and month
MakeDate(y, m, d, ms) ==
    [day |-> DaysBeforeYear(y + (m \div 12)) + DaysBeforeMonth(y + (m \div 12), m % 12) + (d - 1),
     ms  |-> ms]

GetFullYear(t) == CHOOSE y \in 2024..2030 : DaysBeforeYear(y) <= t.day /\ t.day < DaysBeforeYear(y + 1)

GetMonth(t) ==
    LET y == GetFullYear(t)
        n == t.day - DaysBeforeYear(y)
    IN CHOOSE m \in 0..11 : DaysBeforeMonth(y, m) <= n /\ n < DaysBeforeMonth(y, m) + DaysInMonth(y, m)

GetDate(t) == t.day - DaysBeforeYear(GetFullYear(t)) - DaysBeforeMonth(GetFullYear(t), GetMonth(t)) + 1

\* periodEnd.setMonth(periodEnd.getMonth() + 1)
SetMonthPlusOne(t) == MakeDate(GetFullYear(t), GetMonth(t) + 1, GetDate(t), t.ms)

\* periodEnd.setFullYear(periodEnd.getFullYear() + 1)
SetFullYearPlusOne(t) == MakeDate(GetFullYear(t) + 1, GetMonth(t), GetDate(t), t.ms)

\* a < b on timestamps (lt(subscriptions.currentPeriodEnd, now))
Before(a, b) == a.day < b.day \/ (a.day = b.day /\ a.ms < b.ms)

AddDays(t, n) == [day |-> t.day + n, ms |-> t.ms]

AddMs(t, k) == [day |-> t.day + ((t.ms + k) \div DayMs), ms |-> (t.ms + k) % DayMs]

\* Math.ceil(a / b) for b > 0
CeilDiv(a, b) == -((-a) \div b)

(***************************************************************************)
(* Sample instants of the clock, in increasing order.                      *)
(***************************************************************************)
InstantSeq ==
    << MakeDate(2024, 0, 31, 0),          \* 2024-01-31: a month later is 2024-03-02
       MakeDate(2024, 1, 29, 43200000),   \* 2024-02-29 noon: a year later is 2025-03-01
       MakeDate(2024, 2, 4, 0),           \* two days after 2024-03-02
       MakeDate(2024, 2, 29, 43200001) >> \* 1 ms after 2024-03-29 noon

Instants == { InstantSeq[i] : i \in 1..Len(InstantSeq) }

(***************************************************************************)
(* Values of the domain.                                                   *)
(***************************************************************************)
UserIds == {"u1", "u2"}

\* the usage categories modelled (text and audio of text/image/video/audio)
Categories == {"text", "audio"}

\* usage_tracking.month is 1-12
MonthOf(t) == GetMonth(t) + 1

\* the (year, month) keys of the clock values
UsageMonths == { <<GetFullYear(t), MonthOf(t)>> : t \in Instants }

TrackKeys == UserIds \X Categories \X UsageMonths

\* no detached trackUsage call is running
NoPendingTracks == [u \in UserIds |-> 0]

\* no trackUsage call has completed
NoTracks == [k \in TrackKeys |-> 0]

\* the values of the callback's status parameter (OpayCallbackParams.status)
CallbackStatuses == {"pending", "success", "failed"}

\* the statuses the gateway answers a verification with
VerificationStatuses == {"COMPLETED", "PENDING", "ERROR"}

\* paymentAmount and paymentFee of a callback, in thousandths of a taka
PaymentAmounts == {1250004}
PaymentFees == {9996}
PaymentMethods == {"bKash"}

NullDate == [day |-> -1, ms |-> 0]

\* JavaScript truthiness of a string-or-null value
Truthy(v) == v \notin {NULL, UNDEFINED, ""}

\* Math.round(x * 100) of an amount given in thousandths
RoundCents(mills) == (mills + 5) \div 10

(***************************************************************************)
(* The Opaybd gateway.  A transaction id stands for the payment request    *)
(* that created it; the gateway returns that request's meta_data with      *)
(* every verification, as a JSON string.                                   *)
(***************************************************************************)
TxIds == {"t1", "t2", "t3", "t4", "t5"}

Meta(u, tier, interval, price) ==
    [tag |-> "object", userId |-> u, planId |-> "plan_" \o tier, priceId |-> price,
     planTier |-> tier, billingInterval |-> interval]

\* the metadata field of the gateway's verify response for a transaction
WireMetadata(tx) ==
    CASE tx = "t1" -> [tag |-> "json", value |-> Meta("u1", "starter", "month", "price_starter_m")]
      [] tx = "t2" -> [tag |-> "json", value |-> Meta("u1", "pro", "year", "price_pro_y")]
      [] tx = "t3" -> [tag |-> "json", value |-> Meta("u2", "starter", "month", "price_starter_m")]
      [] tx = "t4" -> [tag |-> "string", text |-> "{not json"]
      [] OTHER     -> [tag |-> "json", value |-> Meta("ghost", "pro", "month", "price_pro_m")]

\* mutant of ParseMetadata: text that does not parse is dropped
ParseMetadataDropsUndecodable(wire) ==
    IF wire.tag = "json" THEN wire.value ELSE [tag |-> "none"]

\* opaybd.ts verifyPayment, lines 153-160: JSON.parse of a string metadata;
\* a string that does not parse is left as it is
ParseMetadata(wire) ==
    IF wire.tag = "json" THEN wire.value ELSE wire

\* metadata?.field : undefined on a string
MetaField(m, f) == IF m.tag = "object" THEN m[f] ELSE UNDEFINED

\* OpayService.getHeaders: throws when no API key is stored
GetHeadersThrows == ~Truthy(settings.opayApiKey)

\* OpayService.verifyPayment(transactionId).  answer is what the gateway
\* does with the request: "http_error" (response.ok false) or a status.
VerifyPayment(tx, answer) ==
    IF GetHeadersThrows
    THEN [threw |-> TRUE, fetched |-> FALSE, status |-> "none",
          error |-> "Opaybd credentials not configured", metadata |-> [tag |-> "none"]]
    ELSE IF answer = "http_error"
    THEN [threw |-> TRUE, fetched |-> TRUE, status |-> "none",
          error |-> "Opaybd API error", metadata |-> [tag |-> "none"]]
    ELSE [threw |-> FALSE, fetched |-> TRUE, status |-> answer,
          error |-> "", metadata |-> ParseMetadata(WireMetadata(tx))]

GatewayAnswers == VerificationStatuses \cup {"http_error"}

\* what a verification that was answered saw of the metadata: the form it
\* had on the wire ("json", or "string" for text that does not parse) and the
\* form verifyPayment returned it in; "none" when no answer was read
MetadataSeen(tx, answer) ==
    LET v == VerifyPayment(tx, answer)
    IN IF ~Truthy(tx) \/ v.threw THEN [wire |-> "none", returned |-> "none"]
       ELSE [wire |-> WireMetadata(tx).tag, returned |-> v.metadata.tag]

(***************************************************************************)
(* Tables.                                                                 *)
(***************************************************************************)
\* indices of the rows of a table that satisfy P, in table order
Matching(table, P(_)) == { i \in 1..Len(table) : P(table[i]) }

Min(S) == CHOOSE x \in S : \A y \in S : x <= y

\* const [row] = await db.select()... : the first matching row, 0 when none
FirstMatch(table, P(_)) ==
    IF Matching(table, P) = {} THEN 0 ELSE Min(Matching(table, P))

IsOpaySubOf(u, r) == r.userId = u /\ r.paymentProvider = "opaybd"

\* the Stripe subscription the Stripe webhooks created for u1 before the run
SeedStripeSub ==
    [id |-> 1, userId |-> "u1", stripeSubscriptionId |-> "sub_stripe_1",
     stripePriceId |-> "price_starter_m", planTier |-> "starter",
     previousPlanTier |-> NULL, status |-> "active",
     currentPeriodStart |-> AddDays(InstantSeq[1], -30),
     currentPeriodEnd |-> AddDays(InstantSeq[1], 1),
     paymentProvider |-> "stripe", opayTransactionId |-> NULL,
     renewalRequired |-> FALSE, lastPaymentAmount |-> NULL,
     planChangedAt |-> NullDate, updatedAt |-> AddDays(InstantSeq[1], -30)]

\* a row of the pricing_plan table (schema, pricingPlans)
Plan(id, tier, price, cents, bdt, interval, audioLimit, textLimit) ==
    [id |-> id, tier |-> tier, stripePriceId |-> price, priceAmount |-> cents,
     priceAmountBdt |-> bdt, billingInterval |-> interval,
     audioGenerationLimit |-> audioLimit, textGenerationLimit |-> textLimit]

\* the plans the seeder installs
SeedPlans ==
    << Plan("plan_starter", "starter", "price_starter_m", 999, Given(120000), "month", Given(2), Absent),
       Plan("plan_pro", "pro", "price_pro_y", 19900, Absent, "year", Absent, Absent) >>

(***************************************************************************)
(* OpayService.handlePaymentSuccess                                        *)
(***************************************************************************)
\* lines 185-191: the end of the period that starts at t
PeriodEnd(t, billingInterval) ==
    IF billingInterval = "year" THEN SetFullYearPlusOne(t) ELSE SetMonthPlusOne(t)

\* lines 194-200: the user's existing Opaybd subscription (row index, 0 = none)
ExistingSub(u) == FirstMatch(subscriptions, LAMBDA r : IsOpaySubOf(u, r))

\* mutant of UpdatedSub: the interval is added to the stored period end
UpdatedSubExtendsStoredEnd(old, m, tx, amountCents, t) ==
    [old EXCEPT !.stripePriceId = m.priceId,
                !.planTier = m.planTier,
                !.previousPlanTier = old.planTier,
                !.status = "active",
                !.currentPeriodStart = t,
                !.currentPeriodEnd = PeriodEnd(old.currentPeriodEnd, m.billingInterval),
                !.renewalRequired = FALSE,
                !.opayTransactionId = tx,
                !.lastPaymentAmount = amountCents,
                !.planChangedAt = IF old.planTier # m.planTier THEN t ELSE old.planChangedAt,
                !.updatedAt = t]

\* mutant of UpdatedSub: every payment stamps planChangedAt
UpdatedSubAlwaysStamps(old, m, tx, amountCents, t) ==
    [old EXCEPT !.stripePriceId = m.priceId,
                !.planTier = m.planTier,
                !.previousPlanTier = old.planTier,
                !.status = "active",
                !.currentPeriodStart = t,
                !.currentPeriodEnd = PeriodEnd(t, m.billingInterval),
                !.renewalRequired = FALSE,
                !.opayTransactionId = tx,
                !.lastPaymentAmount = amountCents,
                !.planChangedAt = t,
                !.updatedAt = t]

\* mutant of UpdatedSub: the renewal flag is left as it was
UpdatedSubKeepsFlag(old, m, tx, amountCents, t) ==
    [old EXCEPT !.stripePriceId = m.priceId,
                !.planTier = m.planTier,
                !.previousPlanTier = old.planTier,
                !.status = "active",
                !.currentPeriodStart = t,
                !.currentPeriodEnd = PeriodEnd(t, m.billingInterval),
                !.opayTransactionId = tx,
                !.lastPaymentAmount = amountCents,
                !.planChangedAt = IF old.planTier # m.planTier THEN t ELSE old.planChangedAt,
                !.updatedAt = t]

\* lines 207-221: the row after the update of the existing subscription
UpdatedSub(old, m, tx, amountCents, t) ==
    [old EXCEPT !.stripePriceId = m.priceId,
                !.planTier = m.planTier,
                !.previousPlanTier = old.planTier,
                !.status = "active",
                !.currentPeriodStart = t,
                !.currentPeriodEnd = PeriodEnd(t, m.billingInterval),
                !.renewalRequired = FALSE,
                !.opayTransactionId = tx,
                !.lastPaymentAmount = amountCents,
                !.planChangedAt = IF old.planTier # m.planTier THEN t ELSE old.planChangedAt,
                !.updatedAt = t]

\* lines 227-239: the inserted row
NewSub(m, tx, amountCents, t) ==
    [id |-> Len(subscriptions) + 1, userId |-> m.userId,
     stripeSubscriptionId |-> "opay_" \o tx,
     stripePriceId |-> m.priceId, planTier |-> m.planTier,
     previousPlanTier |-> NULL, status |-> "active",
     currentPeriodStart |-> t,
     currentPeriodEnd |-> PeriodEnd(t, m.billingInterval),
     paymentProvider |-> "opaybd", opayTransactionId |-> tx,
     renewalRequired |-> FALSE, lastPaymentAmount |-> amountCents,
     planChangedAt |-> NullDate, updatedAt |-> t]

\* the insert fails on the foreign key subscription.userId -> user.id and on
\* the unique stripeSubscriptionId (schema, subscription table)
InsertSubFails(row) ==
    \/ row.userId \notin DOMAIN users
    \/ \E i \in 1..Len(subscriptions) :
           subscriptions[i].stripeSubscriptionId = row.stripeSubscriptionId

\* mutant of UpsertSub: a row is inserted for every payment
UpsertSubAlwaysInserts(m, tx, amountCents, t) ==
    Append(subscriptions, NewSub(m, tx, amountCents, t))

\* lines 205-242: the subscription table after the upsert
UpsertSub(m, tx, amountCents, t) ==
    LET e == ExistingSub(m.userId)
    IN IF e # 0
       THEN [subscriptions EXCEPT ![e] = UpdatedSub(subscriptions[e], m, tx, amountCents, t)]
       ELSE Append(subscriptions, NewSub(m, tx, amountCents, t))

\* mutant of UpdateUser: only the subscription status is written
UpdateUserKeepsTier(m) ==
    IF m.userId \in DOMAIN users
    THEN [users EXCEPT ![m.userId].subscriptionStatus = "active"]
    ELSE users

\* lines 245-250
UpdateUser(m) ==
    IF m.userId \in DOMAIN users
    THEN [users EXCEPT ![m.userId] = [subscriptionStatus |-> "active", planTier |-> m.planTier]]
    ELSE users

\* lines 253-274: the payment-history row, for the subscription table subs
HistoryRow(subs, m, p, t) ==
    LET s == FirstMatch(subs, LAMBDA r : IsOpaySubOf(m.userId, r))
    IN [userId |-> m.userId,
        subscriptionId |-> IF s = 0 THEN 0 ELSE subs[s].id,
        amount |-> RoundCents(p.paymentAmount), currency |-> "bdt",
        status |-> "succeeded", paymentProvider |-> "opaybd",
        opayTransactionId |-> p.transactionId,
        opayPaymentMethod |-> p.paymentMethod,
        opayPaymentFee |-> RoundCents(p.paymentFee), paidAt |-> t]

\* mutant of PaymentOutcome: a caller status of 'success' is trusted
PaymentOutcomeTrustsCaller(p, answer) ==
    LET v == VerifyPayment(p.transactionId, answer)
        m == v.metadata
    IN IF v.threw THEN v.error
       ELSE IF v.status # "COMPLETED" /\ p.status # "success" THEN "Payment not completed"
       ELSE IF ~Truthy(MetaField(m, "userId")) \/ ~Truthy(MetaField(m, "planTier"))
            THEN "Invalid payment metadata"
       ELSE IF ExistingSub(m.userId) = 0
               /\ InsertSubFails(NewSub(m, p.transactionId, RoundCents(p.paymentAmount), now))
            THEN "insert failed"
       ELSE "ok"

\* How a call of handlePaymentSuccess(p) ends when the gateway answers the
\* verification with `answer`: "ok", or the error it throws.
PaymentOutcome(p, answer) ==
    LET v == VerifyPayment(p.transactionId, answer)
        m == v.metadata
    IN IF v.threw THEN v.error
       ELSE IF v.status # "COMPLETED" THEN "Payment not completed"
       ELSE IF ~Truthy(MetaField(m, "userId")) \/ ~Truthy(MetaField(m, "planTier"))
            THEN "Invalid payment metadata"
       ELSE IF ExistingSub(m.userId) = 0
               /\ InsertSubFails(NewSub(m, p.transactionId, RoundCents(p.paymentAmount), now))
            THEN "insert failed"
       ELSE "ok"

CallbackParams ==
    [transactionId : TxIds, paymentMethod : PaymentMethods,
     paymentAmount : PaymentAmounts, paymentFee : PaymentFees,
     status : CallbackStatuses]

\* OpayService.handlePaymentSuccess(p), the whole call
HandlePaymentSuccess(p, answer) ==
    LET v   == VerifyPayment(p.transactionId, answer)
        m   == v.metadata
        out == PaymentOutcome(p, answer)
        subs2 == UpsertSub(m, p.transactionId, RoundCents(p.paymentAmount), now)
    IN /\ Len(paymentHistory) < MaxPayments
       /\ IF out = "ok"
          THEN /\ subscriptions' = subs2
               /\ users' = UpdateUser(m)
               /\ paymentHistory' = Append(paymentHistory, HistoryRow(subs2, m, p, now))
          ELSE UNCHANGED <<subscriptions, users, paymentHistory>>
       /\ ret' = [op |-> "handlePaymentSuccess", callerStatus |-> p.status,
                  fetched |-> v.fetched, verification |-> v.status,
                  metadata |-> MetadataSeen(p.transactionId, answer),
                  outcome |-> out,
                  \* the existing subscription was waiting for this payment
                  renewed |-> /\ out = "ok"
                              /\ ExistingSub(m.userId) # 0
                              /\ subscriptions[ExistingSub(m.userId)].renewalRequired]
       /\ UNCHANGED <<now, settings, usageVars, mediaVars, inflight, pricingPlans>>

(***************************************************************************)
(* OpayService.markExpiredSubscriptionsForRenewal                          *)
(***************************************************************************)
\* mutant of IsExpiredUnflagged: the provider is not part of the where clause
IsExpiredUnflaggedAnyProvider(r, t) ==
    /\ r.status = "active"
    /\ r.renewalRequired = FALSE
    /\ Before(r.currentPeriodEnd, t)

\* the where clause of lines 308-313 and 325-330
IsExpiredUnflagged(r, t) ==
    /\ r.paymentProvider = "opaybd"
    /\ r.status = "active"
    /\ r.renewalRequired = FALSE
    /\ Before(r.currentPeriodEnd, t)

MarkExpiredSubscriptionsForRenewal ==
    LET expiredSubs == Matching(subscriptions, LAMBDA r : IsExpiredUnflagged(r, now))
    IN /\ subscriptions' =
              [i \in 1..Len(subscriptions) |->
                  IF IsExpiredUnflagged(subscriptions[i], now)
                  THEN [subscriptions[i] EXCEPT !.renewalRequired = TRUE, !.updatedAt = now]
                  ELSE subscriptions[i]]
       /\ ret' = [op |-> "markExpired", count |-> Cardinality(expiredSubs)]
       /\ UNCHANGED <<now, settings, users, paymentHistory, usageVars, mediaVars, inflight, pricingPlans>>

(***************************************************************************)
(* The clock.                                                              *)
(***************************************************************************)
Tick ==
    /\ \E t \in Instants : Before(now, t) /\ now' = t
    /\ UNCHANGED <<settings, users, subscriptions, paymentHistory, usageVars, mediaVars, inflight, pricingPlans, ret>>

(***************************************************************************)
(* The subscription life cycle: payments, sweeps and the clock, one call   *)
(* after another.                                                          *)
(***************************************************************************)
NoRet == [op |-> "none"]

Init ==
    /\ now = InstantSeq[1]
    /\ settings \in [activeProvider : {"opaybd"}, opayApiKey : {UNDEFINED, "key_1"}]
    /\ users = [u \in UserIds |->
                  IF u = "u1" THEN [subscriptionStatus |-> "active", planTier |-> "starter"]
                  ELSE [subscriptionStatus |-> NULL, planTier |-> "free"]]
    /\ subscriptions = <<SeedStripeSub>>
    /\ paymentHistory = <<>>
    /\ pricingPlans = SeedPlans
    /\ usageTracking = <<>>
    /\ pendingTracks = NoPendingTracks
    /\ trackLog = NoTracks
    /\ media = {}
    /\ storage = {}
    /\ inflight = NoCalls
    /\ ret = NoRet

Next ==
    \/ \E p \in CallbackParams, answer \in GatewayAnswers : HandlePaymentSuccess(p, answer)
    \/ MarkExpiredSubscriptionsForRenewal
    \/ Tick

Spec == Init /\ [][Next]_vars

(***************************************************************************)
(* Subscription lookups: OpayService.getActiveSubscription,                *)
(* OpayService.getSubscriptionNeedingRenewal and the router's              *)
(* getActiveSubscription and checkRenewalRequired.                         *)
(***************************************************************************)
NullResult == [isNull |-> TRUE]

\* lines 354-357 of opaybd.ts: the plan with the subscription's price id
PlanByPriceId(priceId) ==
    LET k == FirstMatch(pricingPlans, LAMBDA q : q.stripePriceId = priceId)
    IN IF k = 0 THEN NULL ELSE pricingPlans[k].id

\* OpayService.getActiveSubscription(userId)
OpayGetActiveSubscription(u) ==
    LET k == FirstMatch(subscriptions,
                 LAMBDA r : r.userId = u /\ r.paymentProvider = "opaybd" /\ r.status = "active")
    IN IF k = 0 THEN NullResult
       ELSE [isNull |-> FALSE, subscription |-> subscriptions[k],
             plan |-> PlanByPriceId(subscriptions[k].stripePriceId)]

\* StripeService.getActiveSubscription(userId): the user's active Stripe subscription
StripeGetActiveSubscription(u) ==
    LET k == FirstMatch(subscriptions,
                 LAMBDA r : r.userId = u /\ r.paymentProvider = "stripe" /\ r.status = "active")
    IN IF k = 0 THEN NullResult
       ELSE [isNull |-> FALSE, subscription |-> subscriptions[k],
             plan |-> PlanByPriceId(subscriptions[k].stripePriceId)]

\* the found subscription with the provider tag ({...found, provider})
Tagged(found, provider) ==
    [isNull |-> FALSE, subscription |-> found.subscription, plan |-> found.plan,
     provider |-> provider]

\* mutant of RouterActiveSubscription: Opaybd is asked first
RouterActiveSubscriptionOpayFirst(u) ==
    IF ~OpayGetActiveSubscription(u).isNull
    THEN Tagged(OpayGetActiveSubscription(u), "opaybd")
    ELSE IF ~StripeGetActiveSubscription(u).isNull
    THEN Tagged(StripeGetActiveSubscription(u), "stripe")
    ELSE NullResult

\* PaymentRouter.getActiveSubscription(userId): its return value
RouterActiveSubscription(u) ==
    IF ~StripeGetActiveSubscription(u).isNull
    THEN Tagged(StripeGetActiveSubscription(u), "stripe")
    ELSE IF ~OpayGetActiveSubscription(u).isNull
    THEN Tagged(OpayGetActiveSubscription(u), "opaybd")
    ELSE NullResult

GetActiveSubscription(u) ==
    /\ ret' = [op |-> "getActiveSubscription", userId |-> u, at |-> now,
               result |-> RouterActiveSubscription(u)]
    /\ UNCHANGED <<now, settings, users, subscriptions, paymentHistory, usageVars, mediaVars, inflight, pricingPlans>>

\* mutant of GetSubscriptionNeedingRenewal: the status is not looked at
GetSubscriptionNeedingRenewalAnyStatus(u) ==
    FirstMatch(subscriptions,
        LAMBDA r : /\ r.userId = u
                   /\ r.paymentProvider = "opaybd"
                   /\ r.renewalRequired = TRUE)

\* OpayService.getSubscriptionNeedingRenewal(userId): row index, 0 for null
GetSubscriptionNeedingRenewal(u) ==
    FirstMatch(subscriptions,
        LAMBDA r : /\ r.userId = u
                   /\ r.paymentProvider = "opaybd"
                   /\ r.renewalRequired = TRUE
                   /\ r.status = "active")

\* mutant of DaysRemaining: a lapsed period counts as zero days
DaysRemainingClamped(expiresAt, t) ==
    IF Before(expiresAt, t) THEN 0
    ELSE (expiresAt.day - t.day) + CeilDiv(expiresAt.ms - t.ms, DayMs)

\* lines 129-132 of payment-router.ts: Math.ceil(diffTime / DayMs), where
\* diffTime = (expiresAt.day - t.day) * DayMs + (expiresAt.ms - t.ms); the
\* whole days divide exactly, so the ceiling is taken of the remainder
DaysRemaining(expiresAt, t) ==
    (expiresAt.day - t.day) + CeilDiv(expiresAt.ms - t.ms, DayMs)

\* PaymentRouter.checkRenewalRequired(userId): its return value
RenewalInfo(u) ==
    LET k == GetSubscriptionNeedingRenewal(u)
    IN IF k = 0 THEN NullResult
       ELSE [isNull |-> FALSE,
             planTier |-> IF Truthy(subscriptions[k].planTier)
                          THEN subscriptions[k].planTier ELSE "unknown",
             daysRemaining |-> DaysRemaining(subscriptions[k].currentPeriodEnd, now),
             expiresAt |-> subscriptions[k].currentPeriodEnd]

CheckRenewalRequired(u) ==
    /\ ret' = [op |-> "checkRenewalRequired", userId |-> u, at |-> now,
               result |-> RenewalInfo(u)]
    /\ UNCHANGED <<now, settings, users, subscriptions, paymentHistory, usageVars, mediaVars, inflight, pricingPlans>>

(***************************************************************************)
(* The lookups over a subscription table drawn from sample rows: a Stripe  *)
(* and an Opaybd subscription of user u1, each in any state.               *)
(***************************************************************************)
LookupNow == InstantSeq[3]

SampleEnds ==
    { AddDays(LookupNow, 3), AddMs(AddDays(LookupNow, 3), -1),
      AddDays(LookupNow, -2), AddMs(AddDays(LookupNow, -2), -1),
      AddMs(LookupNow, 1), LookupNow }

SampleStripeSubs ==
    { [SeedStripeSub EXCEPT !.status = st] : st \in {"active", "canceled"} }

SampleOpaySubs ==
    { [id |-> 2, userId |-> "u1", stripeSubscriptionId |-> "opay_t1",
       stripePriceId |-> "price_starter_m", planTier |-> "starter",
       previousPlanTier |-> NULL, status |-> st,
       currentPeriodStart |-> AddDays(LookupNow, -30), currentPeriodEnd |-> e,
       paymentProvider |-> "opaybd", opayTransactionId |-> "t1",
       renewalRequired |-> f, lastPaymentAmount |-> 125000,
       planChangedAt |-> NullDate, updatedAt |-> AddDays(LookupNow, -30)] :
      st \in {"active", "canceled", "past_due"}, f \in BOOLEAN, e \in SampleEnds }

InitLookup ==
    /\ now = LookupNow
    /\ settings = [activeProvider |-> "opaybd", opayApiKey |-> "key_1"]
    /\ users = [u \in UserIds |->
                  IF u = "u1" THEN [subscriptionStatus |-> "active", planTier |-> "starter"]
                  ELSE [subscriptionStatus |-> NULL, planTier |-> "free"]]
    /\ \E s \in SampleStripeSubs, o \in SampleOpaySubs : subscriptions = <<s, o>>
    /\ paymentHistory = <<>>
    /\ pricingPlans = SeedPlans
    /\ usageTracking = <<>>
    /\ pendingTracks = NoPendingTracks
    /\ trackLog = NoTracks
    /\ media = {}
    /\ storage = {}
    /\ inflight = NoCalls
    /\ ret = NoRet

NextLookup ==
    \/ \E u \in UserIds : GetActiveSubscription(u)
    \/ \E u \in UserIds : CheckRenewalRequired(u)
    \/ MarkExpiredSubscriptionsForRenewal
    \/ Tick

SpecLookup == InitLookup /\ [][NextLookup]_vars

(***************************************************************************)
(* Checkout: OpayService.isConfigured, OpayService.createPayment and       *)
(* PaymentRouter.createCheckoutSession.                                    *)
(***************************************************************************)
\* getActivePaymentProvider() of the settings store: the stored value,
\* 'stripe' when none is stored
GetActivePaymentProvider ==
    IF settings.activeProvider = UNDEFINED THEN "stripe" ELSE settings.activeProvider

\* mutant of IsConfigured: nothing is checked
IsConfiguredAlways(readFails) == TRUE

\* OpayService.isConfigured(); readFails: getOpaySettings() throws
IsConfigured(readFails) ==
    IF readFails THEN FALSE ELSE Truthy(settings.opayApiKey)

\* what the Opaybd create endpoint does with a request
CreateAnswers == {"http_error", "rejected", "created"}

\* lines 76-85 of opaybd.ts: the amount charged, in hundredths of a taka
\* (the code divides the stored minor units by 100)
ChargedAmount(plan) ==
    IF plan.priceAmountBdt.given
    THEN [hundredths |-> plan.priceAmountBdt.value, warned |-> FALSE]
    ELSE [hundredths |-> plan.priceAmount, warned |-> TRUE]

\* OpayService.createPayment(params); answer: what the gateway does
CreatePayment(params, answer) ==
    LET k == FirstMatch(pricingPlans, LAMBDA q : q.id = params.planId)
    IN IF params.userId \notin DOMAIN users
       THEN [threw |-> TRUE, error |-> "User not found", fetched |-> FALSE, payment_url |-> UNDEFINED]
       ELSE IF k = 0
       THEN [threw |-> TRUE, error |-> "Pricing plan not found", fetched |-> FALSE, payment_url |-> UNDEFINED]
       ELSE IF GetHeadersThrows
       THEN [threw |-> TRUE, error |-> "Opaybd credentials not configured", fetched |-> FALSE,
             payment_url |-> UNDEFINED]
       ELSE IF answer = "http_error"
       THEN [threw |-> TRUE, error |-> "Opaybd API error", fetched |-> TRUE, payment_url |-> UNDEFINED]
       ELSE IF answer = "rejected"
       THEN [threw |-> TRUE, error |-> "Failed to create payment with Opaybd", fetched |-> TRUE,
             payment_url |-> UNDEFINED]
       ELSE [threw |-> FALSE, error |-> "", fetched |-> TRUE,
             payment_url |-> "https://pay.opaybd.test/" \o params.planId]

\* what StripeService.createCheckoutSession returns: a Stripe session, whose
\* client_secret may be null, or "throws"
StripeSessions ==
    [id : {"cs_test_1", "cs_test_2"}, client_secret : {NULL, "secret_1", "secret_2"}]

StripeAnswers == StripeSessions \cup {[id |-> "throws", client_secret |-> NULL]}

\* mutant of StripeCheckoutResult: the payment url is filled in as well
StripeCheckoutResultWithUrl(session) ==
    [provider |-> "stripe",
     clientSecret |-> IF Truthy(session.client_secret) THEN session.client_secret ELSE UNDEFINED,
     sessionId |-> session.id,
     paymentUrl |-> session.id]

\* lines 81-85 of payment-router.ts
StripeCheckoutResult(session) ==
    [provider |-> "stripe",
     clientSecret |-> IF Truthy(session.client_secret) THEN session.client_secret ELSE UNDEFINED,
     sessionId |-> session.id,
     paymentUrl |-> UNDEFINED]

\* lines 67-70 of payment-router.ts
OpayCheckoutResult(created) ==
    [provider |-> "opaybd", clientSecret |-> UNDEFINED, sessionId |-> UNDEFINED,
     paymentUrl |-> created.payment_url]

NoCheckoutResult ==
    [provider |-> UNDEFINED, clientSecret |-> UNDEFINED, sessionId |-> UNDEFINED,
     paymentUrl |-> UNDEFINED]

CheckoutParams == [userId : {"u1", "ghost"}, planId : {"plan_starter", "plan_pro", "plan_gone"}]

\* PaymentRouter.createCheckoutSession(params): what it returns or throws and
\* which services it invoked
CheckoutCall(params, readFails, opayAnswer, stripeAnswer) ==
    LET provider == GetActivePaymentProvider
        created == CreatePayment(params, opayAnswer)
    IN IF provider = "opaybd"
       THEN IF ~IsConfigured(readFails)
            THEN [outcome |-> "Opaybd is selected but not configured",
                  result |-> NoCheckoutResult, calls |-> <<"OpayService.isConfigured">>]
            ELSE IF created.threw
            THEN [outcome |-> created.error, result |-> NoCheckoutResult,
                  calls |-> <<"OpayService.isConfigured", "OpayService.createPayment">>]
            ELSE [outcome |-> "ok", result |-> OpayCheckoutResult(created),
                  calls |-> <<"OpayService.isConfigured", "OpayService.createPayment">>]
       ELSE IF stripeAnswer.id = "throws"
            THEN [outcome |-> "Stripe error", result |-> NoCheckoutResult,
                  calls |-> <<"StripeService.createCheckoutSession">>]
            ELSE [outcome |-> "ok", result |-> StripeCheckoutResult(stripeAnswer),
                  calls |-> <<"StripeService.createCheckoutSession">>]

CreateCheckoutSession(params, readFails, opayAnswer, stripeAnswer) ==
    LET c == CheckoutCall(params, readFails, opayAnswer, stripeAnswer)
    IN /\ ret' = [op |-> "createCheckoutSession", outcome |-> c.outcome,
                  result |-> c.result, calls |-> c.calls,
                  readFails |-> readFails, session |-> stripeAnswer]
       /\ UNCHANGED <<now, settings, users, subscriptions, paymentHistory, usageVars, mediaVars, inflight, pricingPlans>>

(***************************************************************************)
(* Checkouts under every setting of the payment settings.                  *)
(***************************************************************************)
InitCheckout ==
    /\ now = InstantSeq[1]
    /\ settings \in [activeProvider : {UNDEFINED, "stripe", "opaybd"},
                     opayApiKey : {UNDEFINED, "", "key_1"}]
    /\ users = [u \in UserIds |->
                  IF u = "u1" THEN [subscriptionStatus |-> "active", planTier |-> "starter"]
                  ELSE [subscriptionStatus |-> NULL, planTier |-> "free"]]
    /\ subscriptions = <<SeedStripeSub>>
    /\ paymentHistory = <<>>
    /\ pricingPlans = SeedPlans
    /\ usageTracking = <<>>
    /\ pendingTracks = NoPendingTracks
    /\ trackLog = NoTracks
    /\ media = {}
    /\ storage = {}
    /\ inflight = NoCalls
    /\ ret = NoRet

NextCheckout ==
    \E params \in CheckoutParams, readFails \in BOOLEAN,
       opayAnswer \in CreateAnswers, stripeAnswer \in StripeAnswers :
        CreateCheckoutSession(params, readFails, opayAnswer, stripeAnswer)

SpecCheckout == InitCheckout /\ [][NextCheckout]_vars

InCalls(name) == \E i \in 1..Len(ret.calls) : ret.calls[i] = name

\* C1: with 'opaybd' the active provider and no Opaybd API key stored (or the
\* Opaybd settings unreadable), createCheckoutSession throws the
\* not-configured error and invokes neither OpayService.createPayment nor
\* StripeService.createCheckoutSession.
C1_UnconfiguredOpayFailsWithoutCall ==
    (/\ ret.op = "createCheckoutSession"
     /\ settings.activeProvider = "opaybd"
     /\ (ret.readFails \/ settings.opayApiKey \in {UNDEFINED, NULL, ""})) =>
        /\ ret.outcome = "Opaybd is selected but not configured"
        /\ ret.result = NoCheckoutResult
        /\ ~InCalls("OpayService.createPayment")
        /\ ~InCalls("StripeService.createCheckoutSession")

C1_Witness ==
    /\ ret.op = "createCheckoutSession"
    /\ settings.activeProvider = "opaybd"
    /\ settings.opayApiKey = UNDEFINED
    /\ ~ret.readFails
    /\ ret.outcome = "Opaybd is selected but not configured"
    /\ ret.calls = <<"OpayService.isConfigured">>

\* C2: with the active provider 'stripe', stored or by default, whatever
\* createCheckoutSession returns has provider 'stripe', the id of the Stripe
\* session as sessionId, the session's client secret as clientSecret (a
\* session without one leaves it undefined) and no paymentUrl.
C2_StripeResultShape ==
    (/\ ret.op = "createCheckoutSession"
     /\ settings.activeProvider \in {UNDEFINED, "stripe"}
     /\ ret.outcome = "ok") =>
        /\ ret.result.provider = "stripe"
        /\ ret.result.sessionId = ret.session.id
        /\ ret.session.client_secret \in {"secret_1", "secret_2"} =>
               ret.result.clientSecret = ret.session.client_secret
        /\ ret.session.client_secret = NULL => ret.result.clientSecret = UNDEFINED
        /\ ret.result.paymentUrl = UNDEFINED
        /\ ret.calls = <<"StripeService.createCheckoutSession">>

C2_Witness ==
    /\ ret.op = "createCheckoutSession"
    /\ settings.activeProvider = UNDEFINED
    /\ ret.outcome = "ok"
    /\ ret.result.provider = "stripe"
    /\ ret.result.clientSecret = "secret_2"
    /\ ret.result.sessionId = "cs_test_1"

(***************************************************************************)
(* Properties of the lookups.                                              *)
(***************************************************************************)
ActiveSubsOf(u, provider) ==
    { i \in 1..Len(subscriptions) :
        /\ subscriptions[i].userId = u
        /\ subscriptions[i].paymentProvider = provider
        /\ subscriptions[i].status = "active" }

\* C3: getActiveSubscription returns the user's active Stripe subscription,
\* tagged 'stripe', whenever there is one (also when an active Opaybd one
\* exists), the active Opaybd subscription tagged 'opaybd' only when Stripe
\* has none, and null exactly when neither provider has an active one.
C3_StripeFirst ==
    ret.op = "getActiveSubscription" =>
        LET S == ActiveSubsOf(ret.userId, "stripe")
            O == ActiveSubsOf(ret.userId, "opaybd")
            r == ret.result
        IN /\ S # {} => (/\ ~r.isNull
                         /\ r.provider = "stripe"
                         /\ \E i \in S : r.subscription = subscriptions[i])
           /\ (S = {} /\ O # {}) => (/\ ~r.isNull
                                     /\ r.provider = "opaybd"
                                     /\ \E i \in O : r.subscription = subscriptions[i])
           /\ r.isNull <=> (S = {} /\ O = {})

C3_Witness ==
    /\ ret.op = "getActiveSubscription"
    /\ ActiveSubsOf(ret.userId, "stripe") # {}
    /\ ActiveSubsOf(ret.userId, "opaybd") # {}
    /\ ret.result.provider = "stripe"
    /\ ret.result.subscription.paymentProvider = "stripe"

\* C4: daysRemaining is the ceiling of (currentPeriodEnd - now) / 86,400,000 ms,
\* that is the integer d with now + (d-1) days < currentPeriodEnd <= now + d
\* days, negative values included: an end exactly 3 days ahead gives 3 and an
\* end exactly 2 days back gives -2.
C4_DaysRemainingIsCeiling ==
    (ret.op = "checkRenewalRequired" /\ ~ret.result.isNull) =>
        LET d == ret.result.daysRemaining
            e == ret.result.expiresAt
            t == ret.at
        IN /\ Before(AddDays(t, d - 1), e)
           /\ ~Before(AddDays(t, d), e)
           /\ (e = AddDays(t, 3) => d = 3)
           /\ (e = AddDays(t, -2) => d = -2)
           /\ \E i \in 1..Len(subscriptions) :
                  /\ subscriptions[i].userId = ret.userId
                  /\ subscriptions[i].currentPeriodEnd = e

C4_Witness ==
    /\ ret.op = "checkRenewalRequired"
    /\ ~ret.result.isNull
    /\ ret.result.expiresAt = AddDays(ret.at, -2)
    /\ ret.result.daysRemaining = -2

\* a call of checkRenewalRequired: the step that leaves its result in ret
IsRenewalCheckStep == ret'.op = "checkRenewalRequired" /\ now' = now

\* C5: checkRenewalRequired changes no stored row; it returns null exactly
\* when the user has no Opaybd subscription with renewalRequired = true and
\* status 'active'; and a second call made right after it, at the same clock
\* value, returns the same result.
C5_RenewalCheckReadsOnly ==
    [][ IsRenewalCheckStep =>
          /\ UNCHANGED <<subscriptions, users, paymentHistory, usageVars, mediaVars, inflight,
                         pricingPlans, settings>>
          /\ ret'.result.isNull <=>
                ~\E i \in 1..Len(subscriptions) :
                     /\ subscriptions[i].userId = ret'.userId
                     /\ subscriptions[i].paymentProvider = "opaybd"
                     /\ subscriptions[i].renewalRequired = TRUE
                     /\ subscriptions[i].status = "active"
          /\ \E u \in UserIds : ret'.userId = u /\ ret'.result = RenewalInfo(u)' ]_vars

C5_Witness ==
    /\ ret.op = "checkRenewalRequired"
    /\ ret.result.isNull
    /\ \E i \in 1..Len(subscriptions) :
          /\ subscriptions[i].userId = ret.userId
          /\ subscriptions[i].paymentProvider = "opaybd"
          /\ subscriptions[i].renewalRequired = TRUE
          /\ subscriptions[i].status = "canceled"

(***************************************************************************)
(* Properties of handlePaymentSuccess.                                     *)
(***************************************************************************)
OpaySubsOf(u) == Matching(subscriptions, LAMBDA r : IsOpaySubOf(u, r))

PaymentsOf(u) == { i \in 1..Len(paymentHistory) : paymentHistory[i].userId = u }

BillingTables == <<subscriptions, users, paymentHistory>>

\* C6: every call of handlePaymentSuccess sends the verification request to
\* the gateway (whenever an API key is stored, without which nothing can be
\* sent and the call throws); a call whose verification did not return
\* COMPLETED throws and leaves the subscription, user and payment-history
\* rows as they were, whatever status the caller passed.
C6_UnverifiedPaymentChangesNothing ==
    [][ ret'.op = "handlePaymentSuccess" =>
          /\ ret'.fetched = Truthy(settings.opayApiKey)
          /\ (ret'.verification # "COMPLETED" =>
                 /\ ret'.outcome # "ok"
                 /\ UNCHANGED BillingTables) ]_vars

C6_Witness ==
    /\ ret.op = "handlePaymentSuccess"
    /\ ret.callerStatus = "success"
    /\ ret.fetched
    /\ ret.verification = "PENDING"
    /\ ret.outcome = "Payment not completed"
    /\ paymentHistory # <<>>

\* the billing interval of the payment a transaction id stands for
IntervalOfTx(tx) == WireMetadata(tx).value.billingInterval

\* C7: the period end of a user's Opaybd subscription is one billing interval
\* (a year for 'year', otherwise a month) after the 'now' of the latest
\* successful handlePaymentSuccess for that user, also when that call was a
\* repeat of an earlier transaction id: the interval is counted from the call,
\* not from the period end an earlier call had stored.
C7_PeriodEndIsLastCallPlusInterval ==
    \A i \in 1..Len(subscriptions) :
        LET r == subscriptions[i] IN
        (r.paymentProvider = "opaybd" /\ PaymentsOf(r.userId) # {}) =>
            LET h == paymentHistory[CHOOSE k \in PaymentsOf(r.userId) :
                                        \A j \in PaymentsOf(r.userId) : j <= k]
            IN /\ r.currentPeriodStart = h.paidAt
               /\ r.currentPeriodEnd =
                     (IF IntervalOfTx(h.opayTransactionId) = "year"
                      THEN SetFullYearPlusOne(h.paidAt)
                      ELSE SetMonthPlusOne(h.paidAt))

C7_Witness ==
    \E i, j \in 1..Len(paymentHistory), k \in 1..Len(subscriptions) :
        /\ i < j /\ j = Len(paymentHistory)
        /\ paymentHistory[i].opayTransactionId = paymentHistory[j].opayTransactionId
        /\ Before(paymentHistory[i].paidAt, paymentHistory[j].paidAt)
        /\ subscriptions[k].opayTransactionId = paymentHistory[j].opayTransactionId
        /\ subscriptions[k].currentPeriodEnd = SetMonthPlusOne(paymentHistory[j].paidAt)
        /\ Before(subscriptions[k].currentPeriodEnd,
                  SetMonthPlusOne(SetMonthPlusOne(paymentHistory[i].paidAt)))

\* C8: a user who has paid through Opaybd has exactly one Opaybd subscription
\* row, however many payments succeeded (a user who has not has none), and a
\* successful call adds a row only when the user had none.
C8_OneOpaySubPerUser ==
    /\ \A u \in UserIds :
          Cardinality(OpaySubsOf(u)) = (IF PaymentsOf(u) = {} THEN 0 ELSE 1)
    /\ Len(subscriptions) =
          1 + Cardinality({ u \in UserIds : PaymentsOf(u) # {} })

C8_Witness ==
    /\ Cardinality(PaymentsOf("u1")) = 2
    /\ Cardinality(OpaySubsOf("u1")) = 1
    /\ paymentHistory[1].opayTransactionId # paymentHistory[2].opayTransactionId

(***************************************************************************)
(* UsageTrackingService (usage-tracking.ts is not among the sources; its   *)
(* two operations follow section 4.3 of the specification).                *)
(***************************************************************************)
CounterField(c) == IF c = "text" THEN "textGenerationCount" ELSE "audioGenerationCount"
LimitField(c) == IF c = "text" THEN "textGenerationLimit" ELSE "audioGenerationLimit"

\* the (year, month) key of an instant
PeriodOf(t) == <<GetFullYear(t), MonthOf(t)>>

\* the usage_tracking row of (user, month, year): unique by the schema
IsUsageRowOf(u, period, r) == r.userId = u /\ r.year = period[1] /\ r.month = period[2]

\* the current month's counter, zero while the row does not exist
UsageCount(u, c) ==
    LET period == PeriodOf(now)
        i == FirstMatch(usageTracking, LAMBDA r : IsUsageRowOf(u, period, r))
    IN IF i = 0 THEN 0 ELSE usageTracking[i][CounterField(c)]

\* the limit of the user's plan for the category; Absent (null) = unlimited
PlanLimit(u, c) ==
    LET i == FirstMatch(pricingPlans, LAMBDA p : p.tier = users[u].planTier)
    IN IF i = 0 THEN Absent ELSE pricingPlans[i][LimitField(c)]

\* mutant of CheckUsageLimit: a null limit compares as the number 0
CheckUsageLimitNullIsZero(u, c) ==
    IF UsageCount(u, c) >= PlanLimit(u, c).value
    THEN [threw |-> TRUE, error |-> "UsageLimitError", remainingQuota |-> Given(0)]
    ELSE [threw |-> FALSE, error |-> "", remainingQuota |-> Absent]

\* checkUsageLimit(userId, category): throws UsageLimitError when the limit
\* is not null and the counter has reached it
CheckUsageLimit(u, c) ==
    LET limit == PlanLimit(u, c)
    IN IF limit.given /\ UsageCount(u, c) >= limit.value
       THEN [threw |-> TRUE, error |-> "UsageLimitError", remainingQuota |-> Given(0)]
       ELSE [threw |-> FALSE, error |-> "", remainingQuota |-> Absent]

\* a usage_tracking row with the schema's defaults
NewUsageRow(u, t) ==
    [userId |-> u, month |-> MonthOf(t), year |-> GetFullYear(t),
     textGenerationCount |-> 0, audioGenerationCount |-> 0]

\* trackUsage(userId, category): the table after the upsert that adds one to
\* the counter of the current month
TrackUsage(u, c) ==
    LET period == PeriodOf(now)
        i == FirstMatch(usageTracking, LAMBDA r : IsUsageRowOf(u, period, r))
    IN IF i = 0
       THEN Append(usageTracking, [NewUsageRow(u, now) EXCEPT ![CounterField(c)] = 1])
       ELSE [usageTracking EXCEPT ![i][CounterField(c)] = @ + 1]

RECURSIVE SumOf(_, _)
SumOf(f, S) == IF S = {} THEN 0 ELSE LET k == CHOOSE x \in S : TRUE IN f[k] + SumOf(f, S \ {k})

\* trackUsage calls completed or still running
TotalTracks ==
    SumOf(trackLog, { k \in TrackKeys : trackLog[k] > 0 }) + SumOf(pendingTracks, UserIds)

(***************************************************************************)
(* POST /api/audio-generation                                              *)
(***************************************************************************)
\* voiceSettings of a request body
VoiceSettings(stability, similarityBoost, style, speed) ==
    [given |-> TRUE, stability |-> stability, similarityBoost |-> similarityBoost,
     style |-> style, speed |-> speed]

NoVoiceSettings ==
    [given |-> FALSE, stability |-> Absent, similarityBoost |-> Absent,
     style |-> Absent, speed |-> Absent]

\* a request body: text is given by its length and its trimmed length
ValidBody ==
    [model |-> "eleven_tts", textLength |-> 12, trimmedLength |-> 10,
     voiceId |-> "voice_1", voiceSettings |-> NoVoiceSettings]

AudioBodies ==
    { ValidBody,
      [ValidBody EXCEPT !.voiceSettings = VoiceSettings(Given(50), Given(75), Absent, Given(100))],
      [ValidBody EXCEPT !.model = UNDEFINED],
      [ValidBody EXCEPT !.textLength = 0, !.trimmedLength = 0],
      [ValidBody EXCEPT !.textLength = 3, !.trimmedLength = 0],
      [ValidBody EXCEPT !.voiceId = UNDEFINED],
      [ValidBody EXCEPT !.textLength = 5001, !.trimmedLength = 5001],
      [ValidBody EXCEPT !.voiceSettings = VoiceSettings(Given(101), Absent, Absent, Absent)],
      [ValidBody EXCEPT !.voiceSettings = VoiceSettings(Absent, Given(-1), Absent, Absent)],
      [ValidBody EXCEPT !.voiceSettings = VoiceSettings(Absent, Absent, Given(150), Absent)],
      [ValidBody EXCEPT !.voiceSettings = VoiceSettings(Absent, Absent, Absent, Given(69))],
      [ValidBody EXCEPT !.model = "chat_model"],
      [ValidBody EXCEPT !.model = "no_such_model"] }

\* v !== undefined && (v < lo || v > hi)
OutOfRange(v, lo, hi) == v.given /\ (v.value < lo \/ v.value > hi)

\* lines 35-66: the first validation that rejects the body, "" when none does
ValidationError(b) ==
    IF ~Truthy(b.model) THEN "Model is required"
    ELSE IF b.textLength = 0 \/ b.trimmedLength = 0
    THEN "Text is required and must be a non-empty string"
    ELSE IF ~Truthy(b.voiceId) THEN "Voice ID is required"
    ELSE IF b.textLength > 5000 THEN "Text exceeds maximum length of 5000 characters"
    ELSE IF b.voiceSettings.given /\ OutOfRange(b.voiceSettings.stability, 0, 100)
    THEN "Stability must be between 0 and 1"
    ELSE IF b.voiceSettings.given /\ OutOfRange(b.voiceSettings.similarityBoost, 0, 100)
    THEN "Similarity boost must be between 0 and 1"
    ELSE IF b.voiceSettings.given /\ OutOfRange(b.voiceSettings.style, 0, 100)
    THEN "Style must be between 0 and 1"
    ELSE IF b.voiceSettings.given /\ OutOfRange(b.voiceSettings.speed, 70, 120)
    THEN "Speed must be between 0.7 and 1.2"
    ELSE ""

\* getModelProvider(model): the provider that lists the model, NULL when none
GetModelProvider(model) ==
    IF model = "eleven_tts" THEN "ElevenLabs"
    ELSE IF model = "chat_model" THEN "OpenRouter"
    ELSE NULL

\* provider.generateAudio is defined
HasGenerateAudio(provider) == provider = "ElevenLabs"

\* mutant of QuotaGate: the UsageLimitError is swallowed
QuotaGateSwallows(u) ==
    [blocked |-> FALSE, status |-> 200, type |-> "", remainingQuota |-> Absent]

\* lines 68-80: the try/catch around checkUsageLimit(session.user.id, 'audio')
QuotaGate(u) ==
    LET check == CheckUsageLimit(u, "audio")
    IN IF check.threw
       THEN [blocked |-> TRUE, status |-> 429, type |-> "usage_limit_exceeded",
             remainingQuota |-> check.remainingQuota]
       ELSE [blocked |-> FALSE, status |-> 200, type |-> "", remainingQuota |-> Absent]

\* what the provider call and the save do
GenerationOutcomes == {"ok", "generate_throws", "save_throws"}

\* stage: where the handler returned ("done": after the provider call, the
\* save and the start of trackUsage)
Response(status, type, quota, checked, tracked, stage) ==
    [status |-> status, type |-> type, remainingQuota |-> quota,
     checked |-> checked, tracked |-> tracked, stage |-> stage]

\* mutant of AudioResponse: trackUsage is started before the save
AudioResponseTracksBeforeSave(req) ==
    IF req.user = NULL THEN Response(401, "", Absent, FALSE, FALSE, "auth")
    ELSE IF req.demo THEN Response(403, "demo_mode_restricted", Absent, FALSE, FALSE, "demo")
    ELSE IF ValidationError(req.body) # ""
    THEN Response(400, "", Absent, FALSE, FALSE, "validation")
    ELSE IF QuotaGate(req.user).blocked
    THEN LET gate == QuotaGate(req.user)
         IN Response(gate.status, gate.type, gate.remainingQuota, TRUE, FALSE, "quota")
    ELSE IF GetModelProvider(req.body.model) = NULL
    THEN Response(400, "", Absent, TRUE, FALSE, "provider")
    ELSE IF ~HasGenerateAudio(GetModelProvider(req.body.model))
    THEN Response(400, "", Absent, TRUE, FALSE, "provider")
    ELSE IF req.outcome = "generate_throws"
    THEN Response(500, "", Absent, TRUE, FALSE, "generate_throws")
    ELSE IF req.outcome = "save_throws"
    THEN Response(500, "", Absent, TRUE, TRUE, "save_throws")
    ELSE Response(200, "", Absent, TRUE, TRUE, "done")

\* lines 9-132: the response to a request, whether checkUsageLimit was
\* called, and whether trackUsage was started
AudioResponse(req) ==
    IF req.user = NULL THEN Response(401, "", Absent, FALSE, FALSE, "auth")
    ELSE IF req.demo THEN Response(403, "demo_mode_restricted", Absent, FALSE, FALSE, "demo")
    ELSE IF ValidationError(req.body) # ""
    THEN Response(400, "", Absent, FALSE, FALSE, "validation")
    ELSE IF QuotaGate(req.user).blocked
    THEN LET gate == QuotaGate(req.user)
         IN Response(gate.status, gate.type, gate.remainingQuota, TRUE, FALSE, "quota")
    ELSE IF GetModelProvider(req.body.model) = NULL
    THEN Response(400, "", Absent, TRUE, FALSE, "provider")
    ELSE IF ~HasGenerateAudio(GetModelProvider(req.body.model))
    THEN Response(400, "", Absent, TRUE, FALSE, "provider")
    ELSE IF req.outcome = "generate_throws"
    THEN Response(500, "", Absent, TRUE, FALSE, "generate_throws")
    ELSE IF req.outcome = "save_throws"
    THEN Response(500, "", Absent, TRUE, FALSE, "save_throws")
    ELSE Response(200, "", Absent, TRUE, TRUE, "done")

\* the requests: a field that the handler never reads on a request's path
\* takes one value only
AudioRequests ==
    { r \in [user : UserIds \cup {NULL}, demo : BOOLEAN, body : AudioBodies,
             outcome : GenerationOutcomes] :
        /\ (r.user = NULL => ~r.demo)
        /\ (r.user = NULL \/ r.demo => r.body = ValidBody)
        /\ (r.body.model # "eleven_tts" \/ ValidationError(r.body) # "" \/ r.user = NULL \/ r.demo
              => r.outcome = "ok") }

AudioGenerationPOST(req) ==
    LET resp == AudioResponse(req)
    IN /\ resp.tracked => TotalTracks < MaxCount + 1
       /\ pendingTracks' = IF resp.tracked
                           THEN [pendingTracks EXCEPT ![req.user] = @ + 1]
                           ELSE pendingTracks
       /\ ret' = [op |-> "POST /api/audio-generation", userId |-> req.user,
                  category |-> "audio",
                  status |-> resp.status, type |-> resp.type,
                  remainingQuota |-> resp.remainingQuota, checked |-> resp.checked,
                  threw |-> resp.status = 429, stage |-> resp.stage]
       /\ UNCHANGED <<now, settings, users, subscriptions, paymentHistory,
                      pricingPlans, usageTracking, trackLog, mediaVars, inflight>>

\* the detached trackUsage(session.user.id, 'audio') of line 117 completes
TrackUsageCompletes(u) ==
    /\ pendingTracks[u] > 0
    /\ usageTracking' = TrackUsage(u, "audio")
    /\ pendingTracks' = [pendingTracks EXCEPT ![u] = @ - 1]
    /\ trackLog' = [trackLog EXCEPT ![<<u, "audio", PeriodOf(now)>>] = @ + 1]
    /\ ret' = [op |-> "trackUsage", userId |-> u, category |-> "audio"]
    /\ UNCHANGED <<now, settings, users, subscriptions, paymentHistory, pricingPlans,
                   mediaVars, inflight>>

\* a caller awaits checkUsageLimit(u, c)
CheckUsageLimitCall(u, c) ==
    /\ ret' = [op |-> "checkUsageLimit", userId |-> u, category |-> c,
               threw |-> CheckUsageLimit(u, c).threw,
               remainingQuota |-> CheckUsageLimit(u, c).remainingQuota]
    /\ UNCHANGED <<now, settings, users, subscriptions, paymentHistory,
                   pricingPlans, usageVars, mediaVars, inflight>>

\* the calendar month changes
NextMonth ==
    /\ now = InstantSeq[1]
    /\ now' = InstantSeq[2]
    /\ ret' = [op |-> "nextMonth"]
    /\ UNCHANGED <<settings, users, subscriptions, paymentHistory, pricingPlans,
                   usageVars, mediaVars, inflight>>

\* the plans, with the audio limit of the starter plan set to a
UsagePlans(a) ==
    << Plan("plan_starter", "starter", "price_starter_m", 999, Given(120000), "month", a, Absent),
       Plan("plan_pro", "pro", "price_pro_y", 19900, Absent, "year", Absent, Given(1)) >>

InitUsage ==
    /\ now = InstantSeq[1]
    /\ settings = [activeProvider |-> "stripe", opayApiKey |-> UNDEFINED]
    /\ users = [u \in UserIds |->
                  IF u = "u1" THEN [subscriptionStatus |-> "active", planTier |-> "starter"]
                  ELSE [subscriptionStatus |-> "active", planTier |-> "pro"]]
    /\ subscriptions = <<SeedStripeSub>>
    /\ paymentHistory = <<>>
    \* a limit is null (unlimited), 0 (no access) or a count
    /\ \E a \in {Absent} \cup { Given(n) : n \in 0..MaxCount } :
         pricingPlans = UsagePlans(a)
    /\ usageTracking = <<>>
    /\ pendingTracks = NoPendingTracks
    /\ trackLog = NoTracks
    /\ media = {}
    /\ storage = {}
    /\ inflight = NoCalls
    /\ ret = NoRet

NextUsage ==
    \/ \E req \in AudioRequests : AudioGenerationPOST(req)
    \/ \E u \in UserIds : TrackUsageCompletes(u)
    \/ \E u \in UserIds, c \in Categories : CheckUsageLimitCall(u, c)
    \/ NextMonth

SpecUsage == InitUsage /\ [][NextUsage]_vars

(***************************************************************************)
(* Properties of the usage checks.                                         *)
(***************************************************************************)
\* the last step was a checkUsageLimit call, made directly or by the route
IsUsageCheck ==
    \/ ret.op = "checkUsageLimit"
    \/ ret.op = "POST /api/audio-generation" /\ ret.checked

\* the trackUsage calls of (u, c) that completed in the current calendar month
CompletedTracks(u, c) == trackLog[<<u, c, PeriodOf(now)>>]

\* C9: when the limit of the user's plan for a usage category is null,
\* checkUsageLimit for that category never fails, whatever the counter is:
\* the direct call does not throw and the route does not answer 429.
C9_NullLimitNeverFails ==
    (IsUsageCheck /\ ~PlanLimit(ret.userId, ret.category).given) =>
        /\ ~ret.threw
        /\ ret.op = "POST /api/audio-generation" => ret.status # 429

\* a generation succeeds on an unlimited plan although the counter has
\* reached the largest limit any plan carries
C9_Witness ==
    /\ ret.op = "POST /api/audio-generation"
    /\ ret.status = 200
    /\ ~PlanLimit(ret.userId, "audio").given
    /\ CompletedTracks(ret.userId, "audio") >= MaxCount
    /\ UsageCount(ret.userId, "audio") >= MaxCount

\* C10: for a user whose plan sets the limit L for a category, a check
\* succeeds while fewer than L trackUsage calls for that user and category
\* have completed in the calendar month, and the check made after exactly L
\* have completed fails with remaining quota 0 (the route answers 429 with
\* type 'usage_limit_exceeded' and remainingQuota 0).
C10_LimitReachedAfterLTracks ==
    (IsUsageCheck /\ PlanLimit(ret.userId, ret.category).given) =>
        LET L == PlanLimit(ret.userId, ret.category).value
            n == CompletedTracks(ret.userId, ret.category)
        IN /\ n < L => ~ret.threw
           /\ n = L =>
                /\ ret.threw
                /\ ret.remainingQuota = Given(0)
                /\ ret.op = "POST /api/audio-generation" =>
                      ret.status = 429 /\ ret.type = "usage_limit_exceeded"

\* the route refuses a request after exactly L >= 2 increments
C10_Witness ==
    /\ ret.op = "POST /api/audio-generation"
    /\ ret.status = 429
    /\ ret.remainingQuota = Given(0)
    /\ PlanLimit(ret.userId, "audio").given
    /\ PlanLimit(ret.userId, "audio").value >= 2
    /\ CompletedTracks(ret.userId, "audio") = PlanLimit(ret.userId, "audio").value

(***************************************************************************)
(* The routes that credit a payment: GET /api/opaybd/callback and          *)
(* POST /api/opaybd/verify.  Each makes two verifications, its own and     *)
(* the one inside handlePaymentSuccess; the gateway answers each call      *)
(* separately.                                                             *)
(***************************************************************************)
\* the tables after handlePaymentSuccess(p), and how the call ended
PaymentResult(p, answer) ==
    LET m     == VerifyPayment(p.transactionId, answer).metadata
        out   == PaymentOutcome(p, answer)
        subs2 == UpsertSub(m, p.transactionId, RoundCents(p.paymentAmount), now)
    IN IF out = "ok"
       THEN [outcome |-> out, subscriptions |-> subs2, users |-> UpdateUser(m),
             paymentHistory |-> Append(paymentHistory, HistoryRow(subs2, m, p, now))]
       ELSE [outcome |-> out, subscriptions |-> subscriptions, users |-> users,
             paymentHistory |-> paymentHistory]

\* the tables when handlePaymentSuccess is not called
NoPayment ==
    [outcome |-> "not called", subscriptions |-> subscriptions, users |-> users,
     paymentHistory |-> paymentHistory]

\* parseFloat(verification.amount), in thousandths: Absent is NaN
WireAmount(tx) ==
    CASE tx = "t1" -> Given(1250004)
      [] tx = "t2" -> Absent
      [] OTHER     -> Given(0)

\* verification.payment_method
WirePaymentMethod(tx) == IF tx = "t1" THEN "" ELSE "bKash"

\* a || b for numbers: NaN and 0 are falsy
NumberOr(a, b) == IF a.given /\ a.value # 0 THEN a.value ELSE b

\* a || b for strings
StringOr(a, b) == IF Truthy(a) THEN a ELSE b

\* the query strings of a callback: every transaction with every status,
\* and requests in which a parameter is missing (NULL, Absent)
CallbackQueries ==
    [transactionId : TxIds, paymentMethod : PaymentMethods,
     paymentAmount : { Given(a) : a \in PaymentAmounts },
     paymentFee : { Given(f) : f \in PaymentFees },
     status : CallbackStatuses]
    \cup
    [transactionId : {"t1", NULL}, paymentMethod : PaymentMethods,
     paymentAmount : { Given(a) : a \in PaymentAmounts },
     paymentFee : { Given(f) : f \in PaymentFees }, status : {NULL}]
    \cup
    [transactionId : {"t2"}, paymentMethod : {NULL}, paymentAmount : {Absent},
     paymentFee : { Given(f) : f \in PaymentFees }, status : {"success"}]

\* lines 17-21 and 44-50: the parameters of the 'success' branch
CallbackSuccessParams(q) ==
    [transactionId |-> q.transactionId,
     paymentMethod |-> StringOr(q.paymentMethod, "unknown"),
     paymentAmount |-> NumberOr(q.paymentAmount, 0),
     paymentFee |-> NumberOr(q.paymentFee, 0), status |-> "success"]

\* lines 68-74: the parameters of the re-verified branch
CallbackVerifiedParams(q) ==
    [transactionId |-> q.transactionId,
     paymentMethod |-> StringOr(WirePaymentMethod(q.transactionId),
                                StringOr(q.paymentMethod, "unknown")),
     paymentAmount |-> NumberOr(WireAmount(q.transactionId), NumberOr(q.paymentAmount, 0)),
     paymentFee |-> NumberOr(q.paymentFee, 0), status |-> "success"]

\* mutant of CallbackCredit: a callback that says 'success' is credited as if
\* the gateway had confirmed it
CallbackCreditTrustsStatus(q, a1, a2) ==
    LET v1 == VerifyPayment(q.transactionId, a1)
    IN IF q.status = "success"
       THEN IF GetHeadersThrows THEN NoPayment
            ELSE PaymentResult(CallbackSuccessParams(q), "COMPLETED")
       ELSE IF q.status = "failed" \/ v1.threw \/ v1.status # "COMPLETED" THEN NoPayment
       ELSE PaymentResult(CallbackVerifiedParams(q), a2)

\* lines 37-91: the call of handlePaymentSuccess the handler makes, if any;
\* a1 answers the handler's verification, a2 the one of handlePaymentSuccess
CallbackCredit(q, a1, a2) ==
    LET v1 == VerifyPayment(q.transactionId, a1)
    IN IF q.status = "success"
       THEN IF v1.threw THEN NoPayment
            ELSE PaymentResult(CallbackSuccessParams(q), a2)
       ELSE IF q.status = "failed" \/ v1.threw \/ v1.status # "COMPLETED" THEN NoPayment
       ELSE PaymentResult(CallbackVerifiedParams(q), a2)

\* the redirect each branch asks for (lines 53, 57, 77, 80, 84, 89, 94)
CallbackIntended(q, a1, a2) ==
    LET v1 == VerifyPayment(q.transactionId, a1)
        credit == CallbackCredit(q, a1, a2)
    IN IF q.status = "success"
       THEN IF v1.threw \/ credit.outcome # "ok" THEN "opay_failed" ELSE "opay_success"
       ELSE IF q.status = "failed" THEN "opay_failed"
       ELSE IF v1.threw THEN "opay_pending"
       ELSE IF v1.status = "COMPLETED"
       THEN IF credit.outcome = "ok" THEN "opay_success" ELSE "opay_pending"
       ELSE IF v1.status = "ERROR" THEN "opay_failed"
       ELSE "opay_pending"

\* redirect() throws: a redirect asked for inside the try block is caught by
\* the catch of line 92, which redirects to opay_failed
CallbackLocation(q, a1, a2) ==
    IF ~Truthy(q.transactionId) THEN "error=missing_transaction" ELSE "opay_failed"

\* GET /api/opaybd/callback, the whole handler
CallbackGET(q, a1, a2) ==
    LET credit == IF Truthy(q.transactionId) THEN CallbackCredit(q, a1, a2) ELSE NoPayment
    IN /\ Len(paymentHistory) < MaxPayments
       /\ subscriptions' = credit.subscriptions
       /\ users' = credit.users
       /\ paymentHistory' = credit.paymentHistory
       /\ ret' = [op |-> "GET /api/opaybd/callback", callerStatus |-> q.status,
                  outcome |-> credit.outcome,
                  metadata |-> IF q.status = "failed" THEN MetadataSeen(NULL, a1)
                               ELSE MetadataSeen(q.transactionId, a1),
                  verification |-> IF credit.outcome = "not called" THEN "none"
                                   ELSE VerifyPayment(q.transactionId, a2).status,
                  intended |-> IF Truthy(q.transactionId)
                               THEN CallbackIntended(q, a1, a2) ELSE "error=missing_transaction",
                  location |-> CallbackLocation(q, a1, a2)]
       /\ UNCHANGED <<now, settings, usageVars, mediaVars, inflight, pricingPlans>>

\* lines 43-49 of the verify endpoint: the parameters it hands on
VerifyParams(tx) ==
    [transactionId |-> tx,
     paymentMethod |-> StringOr(WirePaymentMethod(tx), "unknown"),
     paymentAmount |-> NumberOr(WireAmount(tx), 0),
     paymentFee |-> 0, status |-> "success"]

\* mutant of VerifyCredit: the owner of the payment is not compared with the caller
VerifyCreditSkipsOwnerCheck(sessionUser, tx, a1, a2) ==
    LET v1 == VerifyPayment(tx, a1)
    IN IF ~Truthy(sessionUser) \/ ~Truthy(tx) \/ v1.threw \/ v1.status # "COMPLETED"
       THEN NoPayment
       ELSE PaymentResult(VerifyParams(tx), a2)

\* lines 13-49: the call of handlePaymentSuccess the endpoint makes, if any
VerifyCredit(sessionUser, tx, a1, a2) ==
    LET v1 == VerifyPayment(tx, a1)
    IN IF ~Truthy(sessionUser) \/ ~Truthy(tx) \/ v1.threw \/ v1.status # "COMPLETED"
       THEN NoPayment
       ELSE IF MetaField(v1.metadata, "userId") # sessionUser THEN NoPayment
       ELSE PaymentResult(VerifyParams(tx), a2)

\* the error or the answer each branch asks for: error() throws, and one
\* thrown inside the try block is caught at line 67 and becomes a 500
VerifyIntended(sessionUser, tx, a1, a2) ==
    LET v1 == VerifyPayment(tx, a1)
    IN IF ~Truthy(sessionUser) THEN [http |-> 401, status |-> "error"]
       ELSE IF ~Truthy(tx) THEN [http |-> 400, status |-> "error"]
       ELSE IF v1.threw THEN [http |-> 500, status |-> "error"]
       ELSE IF v1.status = "COMPLETED"
       THEN IF MetaField(v1.metadata, "userId") # sessionUser
            THEN [http |-> 403, status |-> "error"]
            ELSE IF VerifyCredit(sessionUser, tx, a1, a2).outcome # "ok"
            THEN [http |-> 500, status |-> "error"]
            ELSE [http |-> 200, status |-> "success"]
       ELSE IF v1.status = "PENDING" THEN [http |-> 200, status |-> "pending"]
       ELSE [http |-> 200, status |-> "failed"]

VerifyResponse(sessionUser, tx, a1, a2) ==
    LET r == VerifyIntended(sessionUser, tx, a1, a2)
    IN IF r.http \in {400, 403} THEN [http |-> 500, status |-> "error"] ELSE r

\* POST /api/opaybd/verify, the whole handler
VerifyPOST(sessionUser, tx, a1, a2) ==
    LET credit == VerifyCredit(sessionUser, tx, a1, a2)
    IN /\ Len(paymentHistory) < MaxPayments
       /\ subscriptions' = credit.subscriptions
       /\ users' = credit.users
       /\ paymentHistory' = credit.paymentHistory
       /\ ret' = [op |-> "POST /api/opaybd/verify", sessionUser |-> sessionUser,
                  transactionId |-> tx, outcome |-> credit.outcome,
                  metadata |-> IF Truthy(sessionUser) THEN MetadataSeen(tx, a1)
                               ELSE MetadataSeen(NULL, a1),
                  routeVerification |-> IF Truthy(sessionUser) /\ Truthy(tx)
                                        THEN VerifyPayment(tx, a1).status ELSE "none",
                  verification |-> IF credit.outcome = "not called" THEN "none"
                                   ELSE VerifyPayment(tx, a2).status,
                  intended |-> VerifyIntended(sessionUser, tx, a1, a2).http,
                  http |-> VerifyResponse(sessionUser, tx, a1, a2).http,
                  status |-> VerifyResponse(sessionUser, tx, a1, a2).status]
       /\ UNCHANGED <<now, settings, usageVars, mediaVars, inflight, pricingPlans>>

\* the calls of the callback: the request and the gateway's answers to the
\* two verifications; an answer nobody asks for takes one value only
CallbackCalls ==
    { c \in CallbackQueries \X GatewayAnswers \X GatewayAnswers :
        /\ (c[1].transactionId = NULL \/ c[1].status = "failed")
              => (c[2] = "COMPLETED" /\ c[3] = "COMPLETED")
        /\ (c[2] = "http_error" \/ (c[1].status # "success" /\ c[2] # "COMPLETED"))
              => c[3] = "COMPLETED"
        /\ c[1].status = "success" => (c[2] # "ERROR" /\ (c[2] = "PENDING" => c[3] = "COMPLETED")) }

NextCallback ==
    \/ \E c \in CallbackCalls : CallbackGET(c[1], c[2], c[3])
    \/ Tick

SpecCallback == Init /\ [][NextCallback]_vars

\* the calls of the verify endpoint
VerifyCalls ==
    { c \in (UserIds \cup {NULL}) \X (TxIds \cup {NULL}) \X GatewayAnswers \X GatewayAnswers :
        /\ (c[1] = NULL \/ c[2] = NULL) => (c[3] = "COMPLETED" /\ c[4] = "COMPLETED")
        /\ c[3] # "COMPLETED" => c[4] = "COMPLETED" }

NextVerify ==
    \/ \E c \in VerifyCalls : VerifyPOST(c[1], c[2], c[3], c[4])
    \/ Tick

SpecVerify == Init /\ [][NextVerify]_vars

(***************************************************************************)
(* Properties of the crediting routes.                                     *)
(***************************************************************************)
\* C11: a call of the Opaybd callback handler changes the subscription, user
\* or payment-history tables only when the verification made for the credit
\* returned COMPLETED, whatever the status parameter of the callback says.
C11_CallbackCreditsOnlyCompleted ==
    [][ (ret'.op = "GET /api/opaybd/callback" /\ BillingTables' # BillingTables) =>
            /\ ret'.outcome = "ok"
            /\ ret'.verification = "COMPLETED" ]_vars

\* a callback that says 'success' for a payment the gateway reports as
\* pending has credited nothing
C11_Witness ==
    /\ ret.op = "GET /api/opaybd/callback"
    /\ ret.callerStatus = "success"
    /\ ret.verification = "PENDING"
    /\ ret.outcome = "Payment not completed"
    /\ paymentHistory = <<>>
    /\ Len(subscriptions) = 1

\* the user the payment of a transaction was made for
OwnerOfTx(tx) == MetaField(ParseMetadata(WireMetadata(tx)), "userId")

\* C12: the verify endpoint calls handlePaymentSuccess only when its own
\* verification reports COMPLETED and the userId of the payment's metadata
\* is the authenticated caller; a request of any other caller changes no
\* subscription, user or payment-history row.
C12_VerifyCreditsOnlyOwner ==
    [][ ret'.op = "POST /api/opaybd/verify" =>
            /\ ret'.outcome # "not called" =>
                  /\ ret'.routeVerification = "COMPLETED"
                  /\ OwnerOfTx(ret'.transactionId) = ret'.sessionUser
            /\ OwnerOfTx(ret'.transactionId) # ret'.sessionUser =>
                  UNCHANGED BillingTables ]_vars

\* u1 asks to verify the completed payment of u2 and nothing is credited
C12_Witness ==
    /\ ret.op = "POST /api/opaybd/verify"
    /\ ret.sessionUser = "u1"
    /\ ret.transactionId = "t3"
    /\ ret.routeVerification = "COMPLETED"
    /\ ret.outcome = "not called"
    /\ ret.intended = 403
    /\ paymentHistory = <<>>

(***************************************************************************)
(* Properties of the renewal sweep and of the renewal flag.                *)
(***************************************************************************)
\* C13: markExpiredSubscriptionsForRenewal sets renewalRequired (and
\* updatedAt) on exactly the subscriptions that are Opaybd, active, not yet
\* flagged and whose currentPeriodEnd is before the call's now; every other
\* subscription, and the status and period fields of all of them, stay as
\* they were, and no user or payment-history row changes.
C13_SweepFlagsExactlyTheExpired ==
    [][ (ret'.op = "markExpired" /\ now' = now) =>
            /\ Len(subscriptions') = Len(subscriptions)
            /\ \A i \in 1..Len(subscriptions) :
                 LET old == subscriptions[i]
                     due == /\ old.paymentProvider = "opaybd"
                            /\ old.status = "active"
                            /\ ~old.renewalRequired
                            /\ Before(old.currentPeriodEnd, now)
                 IN /\ due => subscriptions'[i] =
                                 [old EXCEPT !.renewalRequired = TRUE, !.updatedAt = now]
                    /\ ~due => subscriptions'[i] = old
            /\ UNCHANGED <<users, paymentHistory>> ]_vars

\* a sweep has flagged an Opaybd subscription, which is still active, and
\* has passed over a Stripe subscription whose period has ended as well
C13_Witness ==
    /\ ret.op = "markExpired"
    /\ ret.count >= 1
    /\ \E i \in 1..Len(subscriptions) :
         /\ subscriptions[i].paymentProvider = "opaybd"
         /\ subscriptions[i].renewalRequired
         /\ subscriptions[i].status = "active"
         /\ subscriptions[i].updatedAt = now
    /\ \E i \in 1..Len(subscriptions) :
         /\ subscriptions[i].paymentProvider = "stripe"
         /\ subscriptions[i].status = "active"
         /\ Before(subscriptions[i].currentPeriodEnd, now)
         /\ ~subscriptions[i].renewalRequired

\* the user the last payment-history row was recorded for
LastPayer(history) == history[Len(history)].userId

\* the user has an Opaybd subscription that is flagged for renewal
IsFlagged(u) ==
    \E i \in 1..Len(subscriptions) :
        IsOpaySubOf(u, subscriptions[i]) /\ subscriptions[i].renewalRequired

\* C14: a successful handlePaymentSuccess for a user whose Opaybd
\* subscription was flagged renewalRequired leaves the flag false and the
\* status 'active', and checkRenewalRequired returns null for the user from
\* then on: only markExpiredSubscriptionsForRenewal makes it return a
\* renewal again.
C14_PaymentClearsRenewalUntilNextSweep ==
    [][ /\ \A u \in UserIds :
               (ret'.op = "handlePaymentSuccess" /\ ret'.outcome = "ok"
                  /\ paymentHistory' # paymentHistory
                  /\ u = LastPayer(paymentHistory') /\ IsFlagged(u)) =>
                   /\ \A i \in 1..Len(subscriptions') :
                        IsOpaySubOf(u, subscriptions'[i]) =>
                            /\ subscriptions'[i].renewalRequired = FALSE
                            /\ subscriptions'[i].status = "active"
                   /\ RenewalInfo(u)'.isNull
        /\ \A u \in UserIds :
               (RenewalInfo(u).isNull /\ ~RenewalInfo(u)'.isNull) =>
                   ret'.op = "markExpired" ]_vars

\* a flagged subscription has just been paid for: the flag is gone and the
\* renewal check answers null
C14_Witness ==
    /\ ret.op = "handlePaymentSuccess"
    /\ ret.outcome = "ok"
    /\ ret.renewed
    /\ ~IsFlagged(LastPayer(paymentHistory))
    /\ RenewalInfo(LastPayer(paymentHistory)).isNull
    /\ Len(paymentHistory) = 2

(***************************************************************************)
(* Admin plan creation (routes/admin/settings/plans/create) and the amount *)
(* OpayService.createPayment charges for a stored plan.                    *)
(*                                                                         *)
(* A form field is Absent (not submitted) or Given(s) with s the sequence  *)
(* of its characters, so that trim() and parseInt() are computed.          *)
(***************************************************************************)
DigitChars == <<"0", "1", "2", "3", "4", "5", "6", "7", "8", "9">>

IsDigit(c) == \E i \in 1..Len(DigitChars) : DigitChars[i] = c

DigitValue(c) == (CHOOSE i \in 1..Len(DigitChars) : DigitChars[i] = c) - 1

IsSpace(c) == c \in {" ", "\t", "\n"}

RECURSIVE TrimStart(_)
TrimStart(s) == IF s # <<>> /\ IsSpace(Head(s)) THEN TrimStart(Tail(s)) ELSE s

RECURSIVE TrimEnd(_)
TrimEnd(s) ==
    IF s # <<>> /\ IsSpace(s[Len(s)]) THEN TrimEnd(SubSeq(s, 1, Len(s) - 1)) ELSE s

\* String.prototype.trim
Trim(s) == TrimEnd(TrimStart(s))

RECURSIVE DigitPrefix(_)
DigitPrefix(s) ==
    IF s # <<>> /\ IsDigit(Head(s)) THEN <<Head(s)>> \o DigitPrefix(Tail(s)) ELSE <<>>

RECURSIVE DecimalValue(_, _)
DecimalValue(s, acc) ==
    IF s = <<>> THEN acc ELSE DecimalValue(Tail(s), 10 * acc + DigitValue(Head(s)))

NaN == [nan |-> TRUE, value |-> 0]

Num(v) == [nan |-> FALSE, value |-> v]

\* parseInt(s) of a string without a 0x prefix: leading white space is
\* skipped, a sign is read, then the longest run of decimal digits; NaN when
\* there is no digit
ParseInt(s) ==
    LET t == TrimStart(s)
        signed == t # <<>> /\ Head(t) \in {"+", "-"}
        d == DigitPrefix(IF signed THEN Tail(t) ELSE t)
    IN IF d = <<>> THEN NaN
       ELSE IF signed /\ Head(t) = "-" THEN Num(0 - DecimalValue(d, 0))
       ELSE Num(DecimalValue(d, 0))

\* !field of data.get(name)?.toString(): the field is missing or empty
Blank(field) == ~field.given \/ field.value = <<>>

\* mutant of ParseBdtPrice: an empty price is stored as 0
ParseBdtPriceEmptyIsZero(field) ==
    IF ~Blank(field) /\ Trim(field.value) # <<>>
    THEN LET n == ParseInt(field.value)
         IN IF n.nan \/ n.value < 0
            THEN [failed |-> TRUE, stored |-> Absent]
            ELSE [failed |-> FALSE, stored |-> Given(n.value)]
    ELSE [failed |-> FALSE, stored |-> Given(0)]

\* lines 110-131 of create/+page.server.ts: the BDT price parsed from the
\* form; stored Absent is the null the insert writes
ParseBdtPrice(field) ==
    IF ~Blank(field) /\ Trim(field.value) # <<>>
    THEN LET n == ParseInt(field.value)
         IN IF n.nan \/ n.value < 0
            THEN [failed |-> TRUE, stored |-> Absent]
            ELSE [failed |-> FALSE, stored |-> Given(n.value)]
    ELSE [failed |-> FALSE, stored |-> Absent]

\* lines 135-138 and 159-162: a generation limit parsed from the form
ParseLimit(field) ==
    IF Blank(field) THEN Absent
    ELSE LET n == ParseInt(field.value)
         IN IF n.nan THEN Absent ELSE Given(n.value)

PlanTiers == {"free", "starter", "pro", "advanced"}

\* the ids randomUUID() gives to the plans created during the run
NewPlanIds == <<"plan_new_1", "plan_new_2">>

CreatedPlans == Len(pricingPlans) - Len(SeedPlans)

\* the submitted form; tier, stripePriceId and billingInterval are "" when
\* the field is left out
PlanForm(tier, price, amount, bdt, interval, audioLimit) ==
    [tier |-> tier, stripePriceId |-> price, priceAmount |-> amount,
     priceAmountBdt |-> bdt, billingInterval |-> interval,
     audioGenerationLimit |-> audioLimit]

\* lines 13-180 of create/+page.server.ts: the status answered and the row
\* inserted (inserted = FALSE: no row); the insert throws on a stripePriceId
\* already stored (unique column) and the catch answers fail(500)
CreatePlanResult(form, demoMode) ==
    LET amount == ParseInt(form.priceAmount.value)
        bdt == ParseBdtPrice(form.priceAmountBdt)
        none == Plan("", "", "", 0, Absent, "", Absent, Absent)
        row == Plan(NewPlanIds[CreatedPlans + 1], form.tier, form.stripePriceId,
                    amount.value, bdt.stored, form.billingInterval,
                    ParseLimit(form.audioGenerationLimit), Absent)
    IN IF demoMode THEN [status |-> 403, inserted |-> FALSE, row |-> none]
       ELSE IF form.tier = "" \/ form.stripePriceId = "" \/ Blank(form.priceAmount)
               \/ form.billingInterval = ""
       THEN [status |-> 400, inserted |-> FALSE, row |-> none]
       ELSE IF form.tier \notin PlanTiers
       THEN [status |-> 400, inserted |-> FALSE, row |-> none]
       ELSE IF form.billingInterval \notin {"month", "year"}
       THEN [status |-> 400, inserted |-> FALSE, row |-> none]
       ELSE IF amount.nan \/ amount.value < 0
       THEN [status |-> 400, inserted |-> FALSE, row |-> none]
       ELSE IF bdt.failed
       THEN [status |-> 400, inserted |-> FALSE, row |-> none]
       ELSE IF \E i \in 1..Len(pricingPlans) :
                   pricingPlans[i].stripePriceId = form.stripePriceId
       THEN [status |-> 500, inserted |-> FALSE, row |-> none]
       ELSE [status |-> 303, inserted |-> TRUE, row |-> row]

\* actions.create
CreatePlan(form, demoMode) ==
    LET r == CreatePlanResult(form, demoMode)
    IN /\ r.inserted => CreatedPlans < Len(NewPlanIds)
       /\ pricingPlans' = IF r.inserted THEN Append(pricingPlans, r.row) ELSE pricingPlans
       /\ ret' = [op |-> "plans.create", status |-> r.status,
                  bdtField |-> form.priceAmountBdt, planId |-> r.row.id]
       /\ UNCHANGED <<now, settings, users, subscriptions, paymentHistory, usageVars, mediaVars, inflight>>

\* OpayService.createPayment as a step of its own: what was charged
CreatePaymentCall(params, answer) ==
    LET c == CreatePayment(params, answer)
        k == FirstMatch(pricingPlans, LAMBDA q : q.id = params.planId)
        reached == params.userId \in DOMAIN users /\ k # 0
    IN /\ ret' = [op |-> "createPayment", threw |-> c.threw, fetched |-> c.fetched,
                  planId |-> params.planId,
                  warned |-> reached /\ ChargedAmount(pricingPlans[k]).warned,
                  amount |-> IF c.fetched
                             THEN Given(ChargedAmount(pricingPlans[k]).hundredths)
                             ELSE Absent]
       /\ UNCHANGED <<now, settings, users, subscriptions, paymentHistory, usageVars, mediaVars, inflight,
                      pricingPlans>>

Txt(s) == Given(s)

\* the forms submitted: a valid form under every spelling of the BDT price,
\* and one form for each validation that rejects
PlanForms ==
    { PlanForm("pro", price, Txt(<<"9", "9", "9">>), bdt, "month", Absent) :
        price \in {"price_new_a", "price_new_b"},
        bdt \in { Absent, Txt(<<>>), Txt(<<" ", " ">>), Txt(<<"0">>),
                  Txt(<<" ", "1", "5", "0", "0">>), Txt(<<"1", "2", "a">>),
                  Txt(<<"a", "b", "c">>), Txt(<<"-", "5">>) } }
    \cup { PlanForm("advanced", "price_new_a", Txt(<<"5", "0">>), Txt(<<>>), "year",
                    Txt(<<"2">>)),
           PlanForm("pro", "price_starter_m", Txt(<<"9", "9", "9">>), Txt(<<>>), "month",
                    Txt(<<"x">>)),
           PlanForm("", "price_new_a", Txt(<<"9", "9", "9">>), Txt(<<>>), "month", Absent),
           PlanForm("gold", "price_new_a", Txt(<<"9", "9", "9">>), Txt(<<>>), "month", Absent),
           PlanForm("pro", "price_new_a", Txt(<<"9", "9", "9">>), Txt(<<>>), "week", Absent),
           PlanForm("pro", "price_new_a", Txt(<<"-", "1">>), Txt(<<>>), "month", Absent),
           PlanForm("pro", "price_new_a", Txt(<<>>), Txt(<<"7">>), "month", Absent) }

PaymentParams ==
    [userId : {"u1", "ghost"},
     planId : {"plan_starter", "plan_pro", "plan_gone", "plan_new_1", "plan_new_2"}]

InitPlans ==
    /\ now = InstantSeq[1]
    /\ settings = [activeProvider |-> "opaybd", opayApiKey |-> "key_1"]
    /\ users = [u \in UserIds |->
                  IF u = "u1" THEN [subscriptionStatus |-> "active", planTier |-> "starter"]
                  ELSE [subscriptionStatus |-> NULL, planTier |-> "free"]]
    /\ subscriptions = <<SeedStripeSub>>
    /\ paymentHistory = <<>>
    /\ pricingPlans = SeedPlans
    /\ usageTracking = <<>>
    /\ pendingTracks = NoPendingTracks
    /\ trackLog = NoTracks
    /\ media = {}
    /\ storage = {}
    /\ inflight = NoCalls
    /\ ret = NoRet

NextPlans ==
    \/ \E form \in PlanForms, demoMode \in BOOLEAN : CreatePlan(form, demoMode)
    \/ \E params \in PaymentParams, answer \in CreateAnswers :
           CreatePaymentCall(params, answer)

SpecPlans == InitPlans /\ [][NextPlans]_vars

\* the BDT price field of the form is empty: missing, "" or only white space
EmptyBdtField(field) == Blank(field) \/ Trim(field.value) = <<>>

PlanById(plans, id) == plans[FirstMatch(plans, LAMBDA q : q.id = id)]

\* C15: a plan created with an empty BDT price is stored (and so read back)
\* with priceAmountBdt null, never 0; createPayment for a plan whose
\* priceAmountBdt is null sends priceAmount / 100 after warning, and for a
\* plan with any non-null priceAmountBdt, 0 included, sends
\* priceAmountBdt / 100 without the warning.
C15_EmptyBdtPriceIsNullAndFallsBack ==
    [][ /\ (ret'.op = "plans.create" /\ ret'.status = 303
              /\ EmptyBdtField(ret'.bdtField)) =>
               /\ Len(pricingPlans') = Len(pricingPlans) + 1
               /\ pricingPlans'[Len(pricingPlans')].id = ret'.planId
               /\ PlanById(pricingPlans', ret'.planId).priceAmountBdt = Absent
        /\ (ret'.op = "createPayment" /\ ret'.fetched) =>
               LET plan == PlanById(pricingPlans, ret'.planId)
               IN IF plan.priceAmountBdt.given
                  THEN /\ ret'.amount = Given(plan.priceAmountBdt.value)
                       /\ ~ret'.warned
                  ELSE /\ ret'.amount = Given(plan.priceAmount)
                       /\ ret'.warned ]_vars

\* a plan created with an empty BDT price has been charged at its primary
\* price, next to a plan created with a BDT price of 0
C15_Witness ==
    /\ ret.op = "createPayment"
    /\ ret.fetched
    /\ ret.planId = "plan_new_2"
    /\ ret.warned
    /\ PlanById(pricingPlans, "plan_new_2").priceAmountBdt = Absent
    /\ PlanById(pricingPlans, "plan_new_2").priceAmount = 999
    /\ ret.amount = Given(999)
    /\ PlanById(pricingPlans, "plan_new_1").priceAmountBdt = Given(0)

(***************************************************************************)
(* Payment history per transaction                                         *)
(***************************************************************************)
\* the payment-history rows that carry the transaction id tx
RecordsOf(history, tx) ==
    {i \in 1..Len(history) : history[i].opayTransactionId = tx}

\* C16: however many times handlePaymentSuccess succeeds for one transaction
\* id, the payment history holds a single record for that transaction.
C16_OneRecordPerTransaction ==
    \A tx \in TxIds : Cardinality(RecordsOf(paymentHistory, tx)) <= 1

(***************************************************************************)
(* Payments by a user who already holds an Opaybd subscription.  The       *)
(* payment history lists the payments of the run: the rows of earlier      *)
(* periods are left out, handlePaymentSuccess only appends to the table.   *)
(***************************************************************************)
\* u1's Opaybd subscription: paid under transaction t0 a month ago, the day
\* the plan went from starter to pro
PaidOpaySub(flagged) ==
    [id |-> 2, userId |-> "u1", stripeSubscriptionId |-> "opay_t0",
     stripePriceId |-> "price_pro_m", planTier |-> "pro",
     previousPlanTier |-> "starter", status |-> "active",
     currentPeriodStart |-> AddDays(InstantSeq[1], -31),
     currentPeriodEnd |-> InstantSeq[1],
     paymentProvider |-> "opaybd", opayTransactionId |-> "t0",
     renewalRequired |-> flagged, lastPaymentAmount |-> 250000,
     planChangedAt |-> AddDays(InstantSeq[1], -31),
     updatedAt |-> AddDays(InstantSeq[1], -31)]

InitRenewal ==
    /\ now = InstantSeq[1]
    /\ settings = [activeProvider |-> "opaybd", opayApiKey |-> "key_1"]
    /\ users = [u \in UserIds |->
                  IF u = "u1" THEN [subscriptionStatus |-> "active", planTier |-> "pro"]
                  ELSE [subscriptionStatus |-> NULL, planTier |-> "free"]]
    /\ \E flagged \in BOOLEAN : subscriptions = <<SeedStripeSub, PaidOpaySub(flagged)>>
    /\ paymentHistory = <<>>
    /\ pricingPlans = SeedPlans
    /\ usageTracking = <<>>
    /\ pendingTracks = NoPendingTracks
    /\ trackLog = NoTracks
    /\ media = {}
    /\ storage = {}
    /\ inflight = NoCalls
    /\ ret = NoRet

SpecRenewal == InitRenewal /\ [][Next]_vars

\* the row index of u's Opaybd subscription in subs (0 = none)
OpaySubOf(subs, u) == FirstMatch(subs, LAMBDA r : IsOpaySubOf(u, r))

\* C17: when a successful handlePaymentSuccess updates an existing Opaybd
\* subscription, planChangedAt becomes the call's now exactly when the tier
\* just paid differs from the tier stored before, and keeps its previous
\* value otherwise.
C17_PlanChangedAtOnlyOnTierChange ==
    [][ \A u \in UserIds :
          (ret'.op = "handlePaymentSuccess" /\ ret'.outcome = "ok"
             /\ u = LastPayer(paymentHistory') /\ OpaySubOf(subscriptions, u) # 0) =>
              LET old == subscriptions[OpaySubOf(subscriptions, u)]
                  new == subscriptions'[OpaySubOf(subscriptions, u)]
              IN /\ new.id = old.id
                 /\ IF new.planTier # old.planTier
                    THEN new.planChangedAt = now
                    ELSE new.planChangedAt = old.planChangedAt ]_vars

\* after a change of tier stamped at one instant, a later payment for the
\* same tier has kept that stamp
C17_Witness ==
    /\ ret.op = "handlePaymentSuccess"
    /\ ret.outcome = "ok"
    /\ Len(paymentHistory) = 2
    /\ LET sub == subscriptions[OpaySubOf(subscriptions, "u1")]
       IN /\ sub.planTier = "starter"
          /\ sub.previousPlanTier = "starter"
          /\ sub.planChangedAt = InstantSeq[1]
          /\ sub.updatedAt = InstantSeq[3]

\* C18: after every successful handlePaymentSuccess the paying user's
\* planTier equals the planTier of that user's Opaybd subscription and the
\* user's subscriptionStatus is 'active'.
C18_UserTierFollowsSubscription ==
    (ret.op = "handlePaymentSuccess" /\ ret.outcome = "ok") =>
        LET u == LastPayer(paymentHistory)
        IN /\ u \in DOMAIN users
           /\ OpaySubOf(subscriptions, u) # 0
           /\ users[u].planTier = subscriptions[OpaySubOf(subscriptions, u)].planTier
           /\ users[u].subscriptionStatus = "active"

\* u1 has moved from starter to pro and u2, who had no subscription, to
\* starter
C18_Witness ==
    /\ ret.op = "handlePaymentSuccess"
    /\ ret.outcome = "ok"
    /\ LastPayer(paymentHistory) = "u1"
    /\ users["u1"] = [subscriptionStatus |-> "active", planTier |-> "pro"]
    /\ subscriptions[OpaySubOf(subscriptions, "u1")].planTier = "pro"
    /\ users["u2"] = [subscriptionStatus |-> "active", planTier |-> "starter"]

(***************************************************************************)
(* POST /api/voice-change (speech to speech) and the two generation routes *)
(* together.  Voice settings are in hundredths, as above.                  *)
(***************************************************************************)
MAX_FILE_SIZE == 10 * 1024 * 1024

SUPPORTED_MIME_TYPES == {"audio/mpeg", "audio/wav", "video/webm"}

ELEVENLABS_STS_MODELS == {"eleven_multilingual_sts_v2", "eleven_english_sts_v2"}

\* the uploaded file
AudioFile(size, type) == [given |-> TRUE, size |-> size, type |-> type]

NoFile == [given |-> FALSE, size |-> 0, type |-> ""]

\* the multipart form; voiceSettingsJson: "" (not sent), "valid" (parses to
\* voiceSettings) or "invalid" (JSON.parse throws)
ValidForm ==
    [file |-> AudioFile(2048, "audio/mpeg"), targetVoiceId |-> "voice_1",
     modelId |-> NULL, voiceSettingsJson |-> "", voiceSettings |-> NoVoiceSettings]

VoiceForms ==
    { ValidForm,
      [ValidForm EXCEPT !.modelId = "eleven_english_sts_v2",
                        !.file = AudioFile(MAX_FILE_SIZE, "video/webm"),
                        !.voiceSettingsJson = "valid",
                        !.voiceSettings = VoiceSettings(Given(0), Given(100), Absent, Given(70))],
      [ValidForm EXCEPT !.voiceSettingsJson = "invalid"],
      [ValidForm EXCEPT !.file = NoFile],
      [ValidForm EXCEPT !.targetVoiceId = NULL],
      [ValidForm EXCEPT !.modelId = "eleven_multilingual_v2"],
      [ValidForm EXCEPT !.file = AudioFile(MAX_FILE_SIZE + 1, "audio/mpeg")],
      [ValidForm EXCEPT !.file = AudioFile(2048, "text/plain")],
      [ValidForm EXCEPT !.voiceSettingsJson = "valid",
                        !.voiceSettings = VoiceSettings(Given(101), Absent, Absent, Absent)],
      [ValidForm EXCEPT !.voiceSettingsJson = "valid",
                        !.voiceSettings = VoiceSettings(Absent, Given(-1), Absent, Absent)],
      [ValidForm EXCEPT !.voiceSettingsJson = "valid",
                        !.voiceSettings = VoiceSettings(Absent, Absent, Given(101), Absent)],
      [ValidForm EXCEPT !.voiceSettingsJson = "valid",
                        !.voiceSettings = VoiceSettings(Absent, Absent, Absent, Given(121))] }

\* lines 132-188 of the voice-change route: the first validation that
\* rejects the form, "" when none does
VoiceValidationError(f) ==
    IF f.voiceSettingsJson = "invalid" THEN "Invalid voice settings JSON"
    ELSE IF ~f.file.given THEN "Audio file is required"
    ELSE IF ~Truthy(f.targetVoiceId) THEN "Target voice ID is required"
    ELSE IF (IF Truthy(f.modelId) THEN f.modelId ELSE "eleven_multilingual_sts_v2")
              \notin ELEVENLABS_STS_MODELS
    THEN "Invalid STS model"
    ELSE IF f.file.size > MAX_FILE_SIZE THEN "File size exceeds maximum limit"
    ELSE IF f.file.type \notin SUPPORTED_MIME_TYPES THEN "Unsupported audio format"
    ELSE IF f.voiceSettings.given /\ OutOfRange(f.voiceSettings.stability, 0, 100)
    THEN "Stability must be between 0 and 1"
    ELSE IF f.voiceSettings.given /\ OutOfRange(f.voiceSettings.similarityBoost, 0, 100)
    THEN "Similarity boost must be between 0 and 1"
    ELSE IF f.voiceSettings.given /\ OutOfRange(f.voiceSettings.style, 0, 100)
    THEN "Style must be between 0 and 1"
    ELSE IF f.voiceSettings.given /\ OutOfRange(f.voiceSettings.speed, 70, 120)
    THEN "Speed must be between 0.7 and 1.2"
    ELSE ""

\* elevenlabsProvider.speechToSpeech is defined
HasSpeechToSpeech == TRUE

\* lines 100-252: the response to a request
VoiceChangeResponse(req) ==
    IF req.user = NULL THEN Response(401, "", Absent, FALSE, FALSE, "auth")
    ELSE IF req.demo THEN Response(403, "demo_mode_restricted", Absent, FALSE, FALSE, "demo")
    ELSE IF VoiceValidationError(req.form) # ""
    THEN Response(400, "", Absent, FALSE, FALSE, "validation")
    ELSE IF QuotaGate(req.user).blocked
    THEN LET gate == QuotaGate(req.user)
         IN Response(gate.status, gate.type, gate.remainingQuota, TRUE, FALSE, "quota")
    ELSE IF ~HasSpeechToSpeech THEN Response(500, "", Absent, TRUE, FALSE, "provider")
    ELSE IF req.outcome = "generate_throws"
    THEN Response(500, "", Absent, TRUE, FALSE, "generate_throws")
    ELSE IF req.outcome = "save_throws"
    THEN Response(500, "", Absent, TRUE, FALSE, "save_throws")
    ELSE Response(200, "", Absent, TRUE, TRUE, "done")

VoiceRequests ==
    { r \in [user : UserIds \cup {NULL}, demo : BOOLEAN, form : VoiceForms,
             outcome : GenerationOutcomes] :
        /\ (r.user = NULL => ~r.demo)
        /\ (r.user = NULL \/ r.demo => r.form = ValidForm)
        /\ (VoiceValidationError(r.form) # "" \/ r.user = NULL \/ r.demo
              => r.outcome = "ok") }

VoiceChangePOST(req) ==
    LET resp == VoiceChangeResponse(req)
    IN /\ resp.tracked => TotalTracks < MaxCount + 1
       /\ pendingTracks' = IF resp.tracked
                           THEN [pendingTracks EXCEPT ![req.user] = @ + 1]
                           ELSE pendingTracks
       /\ ret' = [op |-> "POST /api/voice-change", userId |-> req.user,
                  category |-> "audio",
                  status |-> resp.status, type |-> resp.type,
                  remainingQuota |-> resp.remainingQuota, checked |-> resp.checked,
                  threw |-> resp.status = 429, stage |-> resp.stage]
       /\ UNCHANGED <<now, settings, users, subscriptions, paymentHistory,
                      pricingPlans, usageTracking, trackLog, mediaVars, inflight>>

NextGeneration ==
    \/ \E req \in AudioRequests : AudioGenerationPOST(req)
    \/ \E req \in VoiceRequests : VoiceChangePOST(req)
    \/ \E u \in UserIds : TrackUsageCompletes(u)

SpecGeneration == InitUsage /\ [][NextGeneration]_vars

GenerationRoutes == {"POST /api/audio-generation", "POST /api/voice-change"}

\* the usage counters of the table, by user, in the month of now
AudioCount(table, u) ==
    LET i == FirstMatch(table, LAMBDA r : IsUsageRowOf(u, PeriodOf(now), r))
    IN IF i = 0 THEN 0 ELSE table[i].audioGenerationCount

\* C19: a generation route starts trackUsage only in a request whose provider
\* call and save have both returned; a request rejected for authentication,
\* demo mode, validation or quota, or whose provider call or save throws,
\* starts no trackUsage and changes no usage counter; a counter grows only
\* by a trackUsage that a route has started, by one.
C19_TrackUsageOnlyAfterSuccess ==
    [][ /\ ret'.op \in GenerationRoutes =>
               /\ usageTracking' = usageTracking
               /\ IF ret'.stage = "done" /\ ret'.status = 200
                  THEN pendingTracks' = [pendingTracks EXCEPT ![ret'.userId] = @ + 1]
                  ELSE pendingTracks' = pendingTracks
        /\ usageTracking' # usageTracking =>
               /\ ret'.op = "trackUsage"
               /\ pendingTracks[ret'.userId] > 0
               /\ pendingTracks'[ret'.userId] = pendingTracks[ret'.userId] - 1
               /\ \A u \in UserIds :
                      AudioCount(usageTracking', u) =
                          AudioCount(usageTracking, u) + (IF u = ret'.userId THEN 1 ELSE 0)
      ]_vars

\* a request whose save threw has been answered 500 after one successful
\* request of each route was counted
C19_Witness ==
    /\ ret.op = "POST /api/voice-change"
    /\ ret.stage = "save_throws"
    /\ ret.status = 500
    /\ ret.userId = "u2"
    /\ AudioCount(usageTracking, "u2") = 2
    /\ pendingTracks["u2"] = 0
    /\ TotalTracks = 2

(***************************************************************************)
(* The record-delete handlers: DELETE /api/transcriptions/[id],            *)
(* /api/sound-effects/[id] and /api/audio/[id].                            *)
(***************************************************************************)
MediaTables == {"transcriptions", "soundEffects", "audio"}

\* a row of a media table; cloudPath is NULL for a row without a stored file
MediaRow(table, id, userId, cloudPath) ==
    [table |-> table, id |-> id, userId |-> userId, cloudPath |-> cloudPath]

\* the rows held before the run
SeedMedia ==
    { MediaRow("transcriptions", "uuid_tr1", "u1", "u1/audio/tr1.mp3"),
      MediaRow("transcriptions", "uuid_tr2", "u2", NULL),
      MediaRow("soundEffects", "uuid_se1", "u1", "u1/audio/se1.mp3"),
      MediaRow("audio", "uuid_au1", "u1", "u1/audio/au1.mp3"),
      MediaRow("audio", "uuid_au2", "u1", NULL) }

\* the ids that match the UUID pattern of the handlers
UuidIds == { r.id : r \in SeedMedia } \cup {"uuid_unknown"}

\* params.id of a request: a UUID, some other text, or "" (no id)
RequestIds == UuidIds \cup {"not-a-uuid", ""}

\* the rows of the table with the id (the id is the primary key)
RowsOf(table, id) == { r \in media : r.table = table /\ r.id = id }

\* the two handlers whose body is inside try { } catch (err) { }: the catch
\* rethrows err when it is an Error with a status, which the HttpError
\* thrown by error() is not, and throws error(500) otherwise
InsideTry(table) == table \in {"soundEffects", "audio"}

Rejected(table, status) ==
    [status |-> IF InsideTry(table) THEN 500 ELSE status, thrown |-> status,
     success |-> FALSE, storageCalled |-> FALSE, storageThrew |-> FALSE,
     logged |-> FALSE, rowDeleted |-> FALSE, objectDeleted |-> FALSE]

\* mutant of DeleteResult: the storage deletion is not inside a try of its
\* own, so its failure ends the request
DeleteResultStorageFailureAborts(table, req) ==
    LET rows == RowsOf(table, req.id)
        record == CHOOSE r \in rows : TRUE
    IN IF req.user = NULL THEN Rejected(table, 401)
       ELSE IF req.demo THEN Rejected(table, 403)
       ELSE IF InsideTry(table) /\ req.id = "" THEN Rejected(table, 400)
       ELSE IF req.id \notin UuidIds THEN Rejected(table, 400)
       ELSE IF rows = {} THEN Rejected(table, 404)
       ELSE IF record.userId # req.user THEN Rejected(table, 403)
       ELSE IF Truthy(record.cloudPath) /\ req.storage = "throws"
       THEN [status |-> 500, thrown |-> 500, success |-> FALSE,
             storageCalled |-> TRUE, storageThrew |-> TRUE, logged |-> InsideTry(table),
             rowDeleted |-> FALSE, objectDeleted |-> FALSE]
       ELSE [status |-> 200, thrown |-> 0, success |-> TRUE,
             storageCalled |-> Truthy(record.cloudPath), storageThrew |-> FALSE,
             logged |-> FALSE,
             rowDeleted |-> TRUE, objectDeleted |-> Truthy(record.cloudPath)]

\* the DELETE handler of a table; req.storage: what storageService.delete
\* does when it is called
DeleteResult(table, req) ==
    LET rows == RowsOf(table, req.id)
        record == CHOOSE r \in rows : TRUE
    IN IF req.user = NULL THEN Rejected(table, 401)
       ELSE IF req.demo THEN Rejected(table, 403)
       ELSE IF InsideTry(table) /\ req.id = "" THEN Rejected(table, 400)
       ELSE IF req.id \notin UuidIds THEN Rejected(table, 400)
       ELSE IF rows = {} THEN Rejected(table, 404)
       ELSE IF record.userId # req.user THEN Rejected(table, 403)
       ELSE [status |-> 200, thrown |-> 0, success |-> TRUE,
             storageCalled |-> Truthy(record.cloudPath),
             storageThrew |-> Truthy(record.cloudPath) /\ req.storage = "throws",
             logged |-> Truthy(record.cloudPath) /\ req.storage = "throws",
             rowDeleted |-> TRUE,
             objectDeleted |-> Truthy(record.cloudPath) /\ req.storage = "ok"]

DeleteRequests ==
    { r \in [user : UserIds \cup {NULL}, demo : BOOLEAN, id : RequestIds,
             storage : {"ok", "throws"}] :
        /\ (r.user = NULL => ~r.demo)
        /\ (r.user = NULL \/ r.demo => r.id = "uuid_tr1" /\ r.storage = "ok")
        /\ (r.id \notin { m.id : m \in SeedMedia } => r.storage = "ok") }

DELETE(table, req) ==
    LET res == DeleteResult(table, req)
        rows == RowsOf(table, req.id)
    IN /\ media' = IF res.rowDeleted THEN media \ rows ELSE media
       /\ storage' = IF res.objectDeleted
                     THEN storage \ { r.cloudPath : r \in rows }
                     ELSE storage
       /\ ret' = [op |-> "DELETE", table |-> table, id |-> req.id, userId |-> req.user,
                  status |-> res.status, thrown |-> res.thrown, success |-> res.success,
                  storageCalled |-> res.storageCalled, storageThrew |-> res.storageThrew,
                  logged |-> res.logged]
       /\ UNCHANGED <<now, settings, users, subscriptions, paymentHistory, pricingPlans,
                      usageVars, inflight>>

InitDelete ==
    /\ now = InstantSeq[1]
    /\ settings = [activeProvider |-> "stripe", opayApiKey |-> UNDEFINED]
    /\ users = [u \in UserIds |->
                  IF u = "u1" THEN [subscriptionStatus |-> "active", planTier |-> "starter"]
                  ELSE [subscriptionStatus |-> NULL, planTier |-> "free"]]
    /\ subscriptions = <<SeedStripeSub>>
    /\ paymentHistory = <<>>
    /\ pricingPlans = SeedPlans
    /\ usageTracking = <<>>
    /\ pendingTracks = NoPendingTracks
    /\ trackLog = NoTracks
    /\ media = SeedMedia
    /\ storage = { r.cloudPath : r \in { m \in SeedMedia : Truthy(m.cloudPath) } }
    /\ inflight = NoCalls
    /\ ret = NoRet

NextDelete == \E table \in MediaTables, req \in DeleteRequests : DELETE(table, req)

SpecDelete == InitDelete /\ [][NextDelete]_vars

\* C20: in every record-delete handler, when the storage deletion fails the
\* failure is caught and logged, the database row is deleted all the same,
\* and the request is answered as a success; the stored object stays.
C20_StorageFailureDoesNotBlockDelete ==
    [][ (ret'.op = "DELETE" /\ ret'.storageThrew) =>
            /\ ret'.logged
            /\ ret'.status = 200
            /\ ret'.success
            /\ RowsOf(ret'.table, ret'.id) # {}
            /\ media' = media \ RowsOf(ret'.table, ret'.id)
            /\ storage' = storage ]_vars

\* the storage deletion has failed in all three handlers: the three rows are
\* gone, their objects are still stored, and the last request was answered 200
C20_Witness ==
    /\ ret.op = "DELETE"
    /\ ret.storageThrew
    /\ ret.status = 200
    /\ \A r \in SeedMedia :
          Truthy(r.cloudPath) => r \notin media /\ r.cloudPath \in storage
    /\ \E r \in media : r.id = "uuid_au2"

(***************************************************************************)
(* handlePaymentSuccess and markExpiredSubscriptionsForRenewal statement   *)
(* by statement: a call is held in inflight between two of its awaits, so  *)
(* that the statements of two calls interleave.  There is no transaction   *)
(* around the statements of a call; each statement is atomic.              *)
(***************************************************************************)
RaceTxIds == {"t1", "t2"}

\* the parameters the callers pass for a transaction
RaceParams(tx) ==
    [transactionId |-> tx, paymentMethod |-> "bKash", paymentAmount |-> 1250004,
     paymentFee |-> 9996, status |-> "success"]

HpsCalls == { p \in Procs : inflight[p].op = "handlePaymentSuccess" }

\* a call that starts takes the first free slot
FreeSlot(p) == inflight[p] = IdleCall /\ (p = "p2" => inflight["p1"] # IdleCall)

\* lines 169-183: the verification and the metadata test; now is read
HpsBegin(p, tx, answer) ==
    LET v == VerifyPayment(tx, answer)
        m == v.metadata
        error == IF v.threw THEN v.error
                 ELSE IF v.status # "COMPLETED" THEN "Payment not completed"
                 ELSE IF ~Truthy(MetaField(m, "userId")) \/ ~Truthy(MetaField(m, "planTier"))
                 THEN "Invalid payment metadata"
                 ELSE ""
    IN /\ FreeSlot(p)
       /\ Len(paymentHistory) + Cardinality(HpsCalls) < MaxPayments
       /\ IF error # ""
          THEN /\ ret' = [op |-> "handlePaymentSuccess", outcome |-> error]
               /\ UNCHANGED inflight
          ELSE /\ inflight' = [inflight EXCEPT ![p] =
                                 [op |-> "handlePaymentSuccess", pc |-> "select", tx |-> tx,
                                  m |-> m, t |-> now, existing |-> 0,
                                  staleTier |-> "", staleChangedAt |-> NullDate,
                                  subId |-> 0]]
               /\ UNCHANGED ret
       /\ UNCHANGED <<now, settings, users, subscriptions, paymentHistory, pricingPlans,
                      usageVars, mediaVars>>

\* lines 194-200: the select of the user's Opaybd subscription
HpsSelect(p) ==
    LET c == inflight[p]
        e == FirstMatch(subscriptions, LAMBDA r : IsOpaySubOf(c.m.userId, r))
    IN /\ c.op = "handlePaymentSuccess" /\ c.pc = "select"
       /\ inflight' = [inflight EXCEPT ![p] =
                         [c EXCEPT !.pc = "upsert", !.existing = e,
                                   !.staleTier = IF e = 0 THEN "" ELSE subscriptions[e].planTier,
                                   !.staleChangedAt = IF e = 0 THEN NullDate
                                                      ELSE subscriptions[e].planChangedAt]]
       /\ UNCHANGED <<now, settings, users, subscriptions, paymentHistory, pricingPlans,
                      usageVars, mediaVars, ret>>

\* lines 205-242: the update of the row that was selected, by its id, or the
\* insert of a new row when none was selected
HpsUpsert(p) ==
    LET c == inflight[p]
        amountCents == RoundCents(RaceParams(c.tx).paymentAmount)
        cur == subscriptions[c.existing]
        old == [cur EXCEPT !.planTier = c.staleTier, !.planChangedAt = c.staleChangedAt]
        new == NewSub(c.m, c.tx, amountCents, c.t)
    IN /\ c.op = "handlePaymentSuccess" /\ c.pc = "upsert"
       /\ IF c.existing # 0
          THEN /\ subscriptions' = [subscriptions EXCEPT ![c.existing] =
                                      UpdatedSub(old, c.m, c.tx, amountCents, c.t)]
               /\ inflight' = [inflight EXCEPT ![p] = [c EXCEPT !.pc = "user"]]
               /\ UNCHANGED ret
          ELSE IF InsertSubFails(new)
          THEN /\ ret' = [op |-> "handlePaymentSuccess", outcome |-> "insert failed"]
               /\ inflight' = [inflight EXCEPT ![p] = IdleCall]
               /\ UNCHANGED subscriptions
          ELSE /\ subscriptions' = Append(subscriptions, new)
               /\ inflight' = [inflight EXCEPT ![p] = [c EXCEPT !.pc = "user"]]
               /\ UNCHANGED ret
       /\ UNCHANGED <<now, settings, users, paymentHistory, pricingPlans, usageVars,
                      mediaVars>>

\* lines 245-250
HpsUser(p) ==
    LET c == inflight[p]
    IN /\ c.op = "handlePaymentSuccess" /\ c.pc = "user"
       /\ users' = UpdateUser(c.m)
       /\ inflight' = [inflight EXCEPT ![p] = [c EXCEPT !.pc = "subId"]]
       /\ UNCHANGED <<now, settings, subscriptions, paymentHistory, pricingPlans,
                      usageVars, mediaVars, ret>>

\* lines 253-259
HpsSubId(p) ==
    LET c == inflight[p]
        e == FirstMatch(subscriptions, LAMBDA r : IsOpaySubOf(c.m.userId, r))
    IN /\ c.op = "handlePaymentSuccess" /\ c.pc = "subId"
       /\ inflight' = [inflight EXCEPT ![p] =
                         [c EXCEPT !.pc = "history",
                                   !.subId = IF e = 0 THEN 0 ELSE subscriptions[e].id]]
       /\ UNCHANGED <<now, settings, users, subscriptions, paymentHistory, pricingPlans,
                      usageVars, mediaVars, ret>>

\* lines 262-276: the payment-history row, and the return
HpsHistory(p) ==
    LET c == inflight[p]
        row == [HistoryRow(subscriptions, c.m, RaceParams(c.tx), c.t)
                  EXCEPT !.subscriptionId = c.subId]
    IN /\ c.op = "handlePaymentSuccess" /\ c.pc = "history"
       /\ paymentHistory' = Append(paymentHistory, row)
       /\ inflight' = [inflight EXCEPT ![p] = IdleCall]
       /\ ret' = [op |-> "handlePaymentSuccess", outcome |-> "ok"]
       /\ UNCHANGED <<now, settings, users, subscriptions, pricingPlans, usageVars,
                      mediaVars>>

\* mutant of SweepMatches: the update goes by the ids the select returned
SweepMatchesSelected(r, c) == r.id \in c.ids

\* lines 323-328: the where clause of the update, with the now of the call
SweepMatches(r, c) == IsExpiredUnflagged(r, c.t)

\* lines 301-317: now is read and the expired subscriptions are selected;
\* the call returns 0 when there is none
SweepSelect(p) ==
    LET ids == { subscriptions[i].id :
                   i \in Matching(subscriptions, LAMBDA r : IsExpiredUnflagged(r, now)) }
    IN /\ FreeSlot(p)
       /\ IF ids = {}
          THEN /\ ret' = [op |-> "markExpired", count |-> 0, changed |-> 0]
               /\ UNCHANGED inflight
          ELSE /\ inflight' = [inflight EXCEPT ![p] =
                                 [op |-> "markExpired", pc |-> "update", t |-> now,
                                  ids |-> ids]]
               /\ UNCHANGED ret
       /\ UNCHANGED <<now, settings, users, subscriptions, paymentHistory, pricingPlans,
                      usageVars, mediaVars>>

\* lines 320-333: the update, and the return of the number selected;
\* changed: the rows the update has flagged
SweepUpdate(p) ==
    LET c == inflight[p]
        hit == Matching(subscriptions, LAMBDA r : SweepMatches(r, c))
    IN /\ c.op = "markExpired" /\ c.pc = "update"
       /\ subscriptions' =
              [i \in 1..Len(subscriptions) |->
                  IF i \in hit
                  THEN [subscriptions[i] EXCEPT !.renewalRequired = TRUE, !.updatedAt = c.t]
                  ELSE subscriptions[i]]
       /\ inflight' = [inflight EXCEPT ![p] = IdleCall]
       /\ ret' = [op |-> "markExpired", count |-> Cardinality(c.ids),
                  changed |-> Cardinality({ i \in hit : ~subscriptions[i].renewalRequired })]
       /\ UNCHANGED <<now, settings, users, paymentHistory, pricingPlans, usageVars,
                      mediaVars>>

InitRace ==
    /\ now = InstantSeq[1]
    /\ settings = [activeProvider |-> "opaybd", opayApiKey |-> "key_1"]
    /\ users = [u \in UserIds |->
                  IF u = "u1" THEN [subscriptionStatus |-> "active", planTier |-> "starter"]
                  ELSE [subscriptionStatus |-> NULL, planTier |-> "free"]]
    /\ subscriptions = <<SeedStripeSub>>
    /\ paymentHistory = <<>>
    /\ pricingPlans = SeedPlans
    /\ usageTracking = <<>>
    /\ pendingTracks = NoPendingTracks
    /\ trackLog = NoTracks
    /\ media = {}
    /\ storage = {}
    /\ inflight = NoCalls
    /\ ret = NoRet

NextRace ==
    \/ \E p \in Procs, tx \in RaceTxIds, answer \in {"COMPLETED", "PENDING"} :
           HpsBegin(p, tx, answer)
    \/ \E p \in Procs : HpsSelect(p)
    \/ \E p \in Procs : HpsUpsert(p)
    \/ \E p \in Procs : HpsUser(p)
    \/ \E p \in Procs : HpsSubId(p)
    \/ \E p \in Procs : HpsHistory(p)
    \/ \E p \in Procs : SweepSelect(p)
    \/ \E p \in Procs : SweepUpdate(p)
    \/ Tick

SpecRace == InitRace /\ [][NextRace]_vars

\* the active Opaybd subscriptions of a user
ActiveOpaySubsOf(u) ==
    { i \in 1..Len(subscriptions) :
        IsOpaySubOf(u, subscriptions[i]) /\ subscriptions[i].status = "active" }

\* C21: in every reachable state a user has at most one active Opaybd
\* subscription, also when two handlePaymentSuccess calls for the user
\* interleave.
C21_OneActiveOpaySubUnderRaces ==
    \A u \in UserIds : Cardinality(ActiveOpaySubsOf(u)) <= 1

\* C26: the number markExpiredSubscriptionsForRenewal returns is the number
\* of subscriptions whose renewalRequired flag the call has changed from
\* false to true, also when a handlePaymentSuccess or another sweep runs
\* between its select and its update.
C26_SweepReturnsRowsItFlagged ==
    ret.op = "markExpired" => ret.count = ret.changed

\* C27: in every reachable state, under every interleaving of the sweep and
\* handlePaymentSuccess, a subscription with renewalRequired = true is an
\* Opaybd subscription whose currentPeriodEnd is in the past.
C27_FlaggedMeansLapsedOpaySub ==
    \A i \in 1..Len(subscriptions) :
        subscriptions[i].renewalRequired =>
            /\ subscriptions[i].paymentProvider = "opaybd"
            /\ Before(subscriptions[i].currentPeriodEnd, now)

\* a subscription is flagged while a payment that has selected it is about
\* to renew it, and a sweep is between its select and its update
C27_Witness ==
    \E i \in 1..Len(subscriptions) :
        /\ subscriptions[i].renewalRequired
        /\ inflight["p1"].op = "markExpired"
        /\ inflight["p2"].op = "handlePaymentSuccess"
        /\ inflight["p2"].pc = "upsert"
        /\ inflight["p2"].existing = i

\* C22: in the callback handler a redirect raised inside the try block is not
\* treated as a failure: when handlePaymentSuccess has completed the response
\* is the opay_success redirect, when the verification reports a payment
\* still pending it is the opay_pending redirect, and opay_failed is answered
\* only where the handler asks for it (status=failed, a verification status
\* of ERROR, a thrown processing error).
C22_RedirectIsNotAFailure ==
    (ret.op = "GET /api/opaybd/callback" /\ ret.location # "error=missing_transaction") =>
        /\ ret.outcome = "ok" => ret.location = "opay_success"
        /\ ret.location = ret.intended


\* C25: the verify endpoint answers a request without a transactionId with
\* 400 and a request for a payment made by another user with 403; it answers
\* 500 only when the verification or the processing itself failed, so the
\* status sent is the one the branch taken asked for.
C25_VerifyAnswersWhatTheBranchAsked ==
    ret.op = "POST /api/opaybd/verify" => ret.http = ret.intended


(***************************************************************************)
(* The three callers of verifyPayment, one call after another.             *)
(***************************************************************************)
\* the transactions asked about: one with JSON metadata, one whose metadata
\* is text that does not parse
MetadataTxIds == {"t1", "t4"}

NextMetadata ==
    \/ \E p \in CallbackParams, answer \in GatewayAnswers :
          p.transactionId \in MetadataTxIds /\ HandlePaymentSuccess(p, answer)
    \/ \E c \in CallbackCalls :
          c[1].transactionId \in MetadataTxIds /\ CallbackGET(c[1], c[2], c[3])
    \/ \E c \in VerifyCalls :
          c[2] \in MetadataTxIds /\ VerifyPOST(c[1], c[2], c[3], c[4])
    \/ Tick

SpecMetadata == Init /\ [][NextMetadata]_vars

\* C24: when the metadata of the gateway's answer is text that does not
\* parse, verifyPayment returns it as the text it was, and the caller credits
\* nothing: the subscription, user and payment-history rows stay as they
\* were, handlePaymentSuccess throws (for a COMPLETED payment, 'Invalid
\* payment metadata'), the verify endpoint answers an error without calling
\* handlePaymentSuccess, and the callback does not redirect to opay_success.
C24_UndecodableMetadataCreditsNothing ==
    [][ (ret'.op \in {"handlePaymentSuccess", "GET /api/opaybd/callback",
                      "POST /api/opaybd/verify"}
         /\ ret'.metadata.wire = "string") =>
          /\ ret'.metadata.returned = "string"
          /\ UNCHANGED BillingTables
          /\ ret'.outcome # "ok"
          /\ (ret'.op = "handlePaymentSuccess" /\ ret'.verification = "COMPLETED")
                => ret'.outcome = "Invalid payment metadata"
          /\ (ret'.op = "POST /api/opaybd/verify" /\ ret'.routeVerification = "COMPLETED")
                => (ret'.http >= 400 /\ ret'.outcome = "not called")
          /\ ret'.op = "GET /api/opaybd/callback" => ret'.location # "opay_success" ]_vars

\* a COMPLETED payment with undecodable metadata was handed to
\* handlePaymentSuccess after earlier payments had been credited
C24_Witness ==
    /\ ret.op = "handlePaymentSuccess"
    /\ ret.metadata.wire = "string"
    /\ ret.metadata.returned = "string"
    /\ ret.verification = "COMPLETED"
    /\ ret.outcome = "Invalid payment metadata"
    /\ paymentHistory # <<>>


\* the audio generations of u that went past checkUsageLimit and through the
\* provider to the start of trackUsage, while the first month lasts (every
\* trackUsage, completed or still running, was then started in that month)
AudioGenerationsPassed(u) == CompletedTracks(u, "audio") + pendingTracks[u]

\* C23: for a user whose plan has the audio limit L, at most L audio
\* generation requests of one calendar month get past checkUsageLimit to the
\* provider, also when the requests overlap and trackUsage runs detached
\* from the response.
C23_AtMostLAudioRequestsPassTheGate ==
    \A u \in UserIds :
        (now = InstantSeq[1] /\ PlanLimit(u, "audio").given) =>
            AudioGenerationsPassed(u) <= PlanLimit(u, "audio").value


(***************************************************************************)
(* Admin > Payment Methods: actions.update                                 *)
(* (routes/admin/settings/payment-methods/+page.server.ts).                *)
(***************************************************************************)
\* the text of a sequence of characters
RECURSIVE Join(_)
Join(s) == IF s = <<>> THEN "" ELSE Head(s) \o Join(Tail(s))

\* the prefix a Stripe publishable key starts with
KeyPrefix(k) ==
    CASE k = "pk_test_1" -> "pk_test_"
      [] k = "pk_live_1" -> "pk_live_"
      [] OTHER -> ""

\* a submitted form; the Opaybd key is text, Absent when the field is missing;
\* the Stripe secret key and webhook secret are left empty
SettingsForm(activeProvider, environment, stripePublishableKey, opayApiKey) ==
    [activeProvider |-> activeProvider, environment |-> environment,
     stripePublishableKey |-> stripePublishableKey, opayApiKey |-> opayApiKey]

SettingsForms ==
    { SettingsForm(a, "test", "", k) :
        a \in {"stripe", "opaybd"},
        k \in {Absent, Txt(<<>>), Txt(<<" ">>), Txt(<<"k", "2">>), Txt(<<" ", "k", "2", " ">>)} }
    \cup
    { SettingsForm(UNDEFINED, "test", "", Absent),
      SettingsForm("paypal", "test", "", Absent),
      SettingsForm("stripe", UNDEFINED, "", Absent),
      SettingsForm("stripe", "test", "pk_live_1", Absent),
      SettingsForm("stripe", "live", "pk_live_1", Absent) }

\* lines 63-103: the validation that rejects the form, "" when none does;
\* !opayApiKey is true of a missing field and of the empty string only
SettingsValidationError(form) ==
    IF ~Truthy(form.activeProvider) \/ form.activeProvider \notin {"stripe", "opaybd"}
    THEN "Invalid payment provider selection"
    ELSE IF ~Truthy(form.environment) \/ form.environment \notin {"test", "live"}
    THEN "Invalid Stripe environment selection"
    ELSE IF Truthy(form.stripePublishableKey)
            /\ KeyPrefix(form.stripePublishableKey) #
                   (IF form.environment = "test" THEN "pk_test_" ELSE "pk_live_")
    THEN "Stripe publishable key must start with the prefix of the environment"
    ELSE IF form.activeProvider = "opaybd" /\ Blank(form.opayApiKey)
    THEN "Opaybd API Key is required when Opaybd is the active provider"
    ELSE ""

\* lines 112-116: shouldSaveValue(newValue, currentValue); the stored values
\* carry no surrounding white space
ShouldSaveValue(newValue, currentValue) ==
    LET trimmedNew == IF newValue.given THEN Join(Trim(newValue.value)) ELSE ""
        trimmedCurrent == StringOr(currentValue, "")
    IN trimmedNew # "" /\ trimmedNew # trimmedCurrent

\* lines 119-150: the settings after setSettings(settingsToSave)
SavedSettings(form) ==
    [activeProvider |->
        IF form.activeProvider # GetActivePaymentProvider
        THEN form.activeProvider ELSE settings.activeProvider,
     opayApiKey |->
        IF ShouldSaveValue(form.opayApiKey, settings.opayApiKey)
        THEN Join(Trim(form.opayApiKey.value)) ELSE settings.opayApiKey]

\* actions.update, the whole action; demo: demo mode is on; saveFails: a read
\* of the current settings or setSettings throws
UpdatePaymentSettings(form, demo, saveFails) ==
    LET error == SettingsValidationError(form)
        status == IF demo THEN 403
                  ELSE IF error # "" THEN 400
                  ELSE IF saveFails THEN 500 ELSE 200
    IN /\ settings' = IF status = 200 THEN SavedSettings(form) ELSE settings
       /\ ret' = [op |-> "actions.update", status |-> status, success |-> status = 200,
                  error |-> IF status = 400 THEN error ELSE "",
                  selected |-> form.activeProvider,
                  activeProvider |-> IF status = 200
                                     THEN StringOr(SavedSettings(form).activeProvider, "stripe")
                                     ELSE UNDEFINED]
       /\ UNCHANGED <<now, users, subscriptions, paymentHistory, pricingPlans,
                      usageVars, mediaVars, inflight>>


(***************************************************************************)
(* The checkout route (POST) and PaymentRouter.createCheckoutSession,      *)
(* await by await, while the payment settings are being edited.            *)
(***************************************************************************)
CheckoutCalls == { p \in Procs : inflight[p].op = "checkout" }

\* getPlanByPriceId(priceId): the row index of the plan, 0 when none
PlanIndexOfPrice(priceId) ==
    FirstMatch(pricingPlans, LAMBDA q : q.stripePriceId = priceId)

\* lines 46-58 of the route: the response built from the router's result
CheckoutResponse(result) ==
    IF result.provider = "opaybd"
    THEN [status |-> 200, provider |-> "opaybd", redirectUrl |-> result.paymentUrl,
          clientSecret |-> UNDEFINED, sessionId |-> UNDEFINED]
    ELSE [status |-> 200, provider |-> "stripe", redirectUrl |-> UNDEFINED,
          clientSecret |-> result.clientSecret, sessionId |-> result.sessionId]

\* lines 60-63 of the route: whatever was thrown inside the try is answered 500
CheckoutFailure ==
    [status |-> 500, provider |-> UNDEFINED, redirectUrl |-> UNDEFINED,
     clientSecret |-> UNDEFINED, sessionId |-> UNDEFINED]

\* the end of a request: read is the provider that line 41 of the router
\* read (NULL when the router was not reached), invoked the gateways called
CheckoutDone(read, invoked, outcome, result) ==
    [op |-> "POST checkout", read |-> read, invoked |-> invoked,
     outcome |-> outcome, result |-> result,
     response |-> IF outcome = "ok" THEN CheckoutResponse(result) ELSE CheckoutFailure]

\* lines 8-43 of the route: the session and the price id are checked and
\* createCheckoutSession is called
CheckoutPOST(p, user, priceId) ==
    LET k == PlanIndexOfPrice(priceId)
    IN /\ FreeSlot(p)
       /\ IF ~Truthy(user) \/ ~Truthy(priceId) \/ k = 0
          THEN /\ ret' = CheckoutDone(NULL, {}, "rejected", NoCheckoutResult)
               /\ UNCHANGED inflight
          ELSE /\ inflight' = [inflight EXCEPT ![p] =
                                  [op |-> "checkout", pc |-> "getActiveProvider",
                                   params |-> [userId |-> user, planId |-> pricingPlans[k].id],
                                   provider |-> UNDEFINED]]
               /\ UNCHANGED ret
       /\ UNCHANGED <<now, settings, users, subscriptions, paymentHistory, pricingPlans,
                      usageVars, mediaVars>>

\* line 41 of the router: const provider = await this.getActiveProvider()
CheckoutReadProvider(p) ==
    /\ inflight[p].op = "checkout" /\ inflight[p].pc = "getActiveProvider"
    /\ inflight' = [inflight EXCEPT ![p].provider = GetActivePaymentProvider,
                                    ![p].pc = "routed"]
    /\ UNCHANGED <<now, settings, users, subscriptions, paymentHistory, pricingPlans,
                   usageVars, mediaVars, ret>>

\* mutant of RoutedGateway: the setting is read again at the branch
RoutedGatewayRereads(c) ==
    IF GetActivePaymentProvider = "opaybd" THEN "opaybd" ELSE "stripe"

\* line 45 of the router: the branch taken goes by the local constant
RoutedGateway(c) == IF c.provider = "opaybd" THEN "opaybd" ELSE "stripe"

\* lines 47-50 of the router: await OpayService.isConfigured()
CheckoutIsConfigured(p, readFails) ==
    LET c == inflight[p]
    IN /\ c.op = "checkout" /\ c.pc = "routed" /\ RoutedGateway(c) = "opaybd"
       /\ IF IsConfigured(readFails)
          THEN /\ inflight' = [inflight EXCEPT ![p].pc = "createPayment"]
               /\ UNCHANGED ret
          ELSE /\ inflight' = [inflight EXCEPT ![p] = IdleCall]
               /\ ret' = CheckoutDone(c.provider, {}, "Opaybd is selected but not configured",
                                      NoCheckoutResult)
       /\ UNCHANGED <<now, settings, users, subscriptions, paymentHistory, pricingPlans,
                      usageVars, mediaVars>>

\* lines 59-70 of the router: await OpayService.createPayment(...)
CheckoutCreatePayment(p, answer) ==
    LET c == inflight[p]
        created == CreatePayment(c.params, answer)
    IN /\ c.op = "checkout" /\ c.pc = "createPayment"
       /\ inflight' = [inflight EXCEPT ![p] = IdleCall]
       /\ ret' = CheckoutDone(c.provider, IF created.fetched THEN {"opaybd"} ELSE {},
                              IF created.threw THEN created.error ELSE "ok",
                              IF created.threw THEN NoCheckoutResult
                              ELSE OpayCheckoutResult(created))
       /\ UNCHANGED <<now, settings, users, subscriptions, paymentHistory, pricingPlans,
                      usageVars, mediaVars>>

\* lines 74-85 of the router: await StripeService.createCheckoutSession(...)
CheckoutStripe(p, stripeAnswer) ==
    LET c == inflight[p]
    IN /\ c.op = "checkout" /\ c.pc = "routed" /\ RoutedGateway(c) = "stripe"
       /\ inflight' = [inflight EXCEPT ![p] = IdleCall]
       /\ ret' = CheckoutDone(c.provider, {"stripe"},
                              IF stripeAnswer.id = "throws" THEN "Stripe error" ELSE "ok",
                              IF stripeAnswer.id = "throws" THEN NoCheckoutResult
                              ELSE StripeCheckoutResult(stripeAnswer))
       /\ UNCHANGED <<now, settings, users, subscriptions, paymentHistory, pricingPlans,
                      usageVars, mediaVars>>

\* the price ids a request carries: two plans, an unknown price, none
CheckoutPriceIds == {"price_starter_m", "price_pro_y", "price_gone", UNDEFINED}

\* a fresh installation, or one with an Opaybd key stored
InitSettings ==
    /\ now = InstantSeq[1]
    /\ settings \in [activeProvider : {UNDEFINED, "stripe"}, opayApiKey : {UNDEFINED, "key_1"}]
    /\ users = [u \in UserIds |->
                  IF u = "u1" THEN [subscriptionStatus |-> "active", planTier |-> "starter"]
                  ELSE [subscriptionStatus |-> NULL, planTier |-> "free"]]
    /\ subscriptions = <<SeedStripeSub>>
    /\ paymentHistory = <<>>
    /\ pricingPlans = SeedPlans
    /\ usageTracking = <<>>
    /\ pendingTracks = NoPendingTracks
    /\ trackLog = NoTracks
    /\ media = {}
    /\ storage = {}
    /\ inflight = NoCalls
    /\ ret = NoRet

NextSettings ==
    \/ \E form \in SettingsForms, demo \in BOOLEAN, saveFails \in BOOLEAN :
          UpdatePaymentSettings(form, demo, saveFails)
    \/ \E p \in Procs, user \in {"u1", NULL}, priceId \in CheckoutPriceIds :
          CheckoutPOST(p, user, priceId)
    \/ \E p \in Procs : CheckoutReadProvider(p)
    \/ \E p \in Procs, readFails \in BOOLEAN : CheckoutIsConfigured(p, readFails)
    \/ \E p \in Procs, answer \in CreateAnswers : CheckoutCreatePayment(p, answer)
    \/ \E p \in Procs, stripeAnswer \in StripeAnswers : CheckoutStripe(p, stripeAnswer)

SpecSettings == InitSettings /\ [][NextSettings]_vars

\* C28: a checkout request reads the active provider once and invokes no
\* gateway but the one of the provider it read; when it succeeds, the
\* provider field of the router's result and of the route's response is the
\* provider read, which is the gateway invoked, whatever the setting has
\* become in the meantime.
C28_ResultNamesTheGatewayInvoked ==
    (ret.op = "POST checkout" /\ ret.read # NULL) =>
        /\ ret.invoked \subseteq {StringOr(ret.read, "stripe")}
        /\ ret.outcome = "ok" =>
              /\ ret.invoked = {ret.read}
              /\ ret.result.provider = ret.read
              /\ ret.response.status = 200
              /\ ret.response.provider = ret.read

\* a checkout that read 'opaybd' completed through Opaybd after the setting
\* had been changed to 'stripe'
C28_Witness ==
    /\ ret.op = "POST checkout"
    /\ ret.read = "opaybd"
    /\ settings.activeProvider = "stripe"
    /\ ret.outcome = "ok"
    /\ ret.invoked = {"opaybd"}
    /\ ret.response.provider = "opaybd"

\* C29: after a successful payment-settings update that selects 'opaybd', a
\* non-empty Opaybd API key is stored, so that isConfigured() is true.
C29_OpaySelectedMeansKeyStored ==
    (ret.op = "actions.update" /\ ret.success /\ ret.selected = "opaybd") =>
        /\ settings.activeProvider = "opaybd"
        /\ IsConfigured(FALSE)


(***************************************************************************)
(* GET of a media record: transcriptions/[id], sound-effects/[id] and      *)
(* audio/[id].                                                             *)
(***************************************************************************)
\* the storageLocation column of the rows held before the run
StorageLocation(record) == IF record.id \in {"uuid_se1", "uuid_tr1"} THEN "r2" ELSE "local"

\* a GET that was answered with an error
GetRejected(table, status) ==
    [status |-> IF InsideTry(table) THEN 500 ELSE status, thrown |-> status,
     success |-> FALSE, disclosed |-> FALSE, storageCalled |-> FALSE]

\* a GET that was answered with data of the record: its fields (200) or the
\* presigned URL of its file (302)
GetAnswered(status, storageCalled) ==
    [status |-> status, thrown |-> 0, success |-> TRUE, disclosed |-> TRUE,
     storageCalled |-> storageCalled]

\* mutant of GetResult: the owner of the record is not compared with the caller
GetResultSkipsOwnerCheck(table, req) ==
    LET rows == RowsOf(table, req.id)
        record == CHOOSE r \in rows : TRUE
        r2 == StorageLocation(record) = "r2" /\ Truthy(record.cloudPath)
    IN IF req.user = NULL THEN GetRejected(table, 401)
       ELSE IF InsideTry(table) /\ req.id = "" THEN GetRejected(table, 400)
       ELSE IF req.id \notin UuidIds THEN GetRejected(table, 400)
       ELSE IF rows = {} THEN GetRejected(table, 404)
       ELSE IF table = "transcriptions"
       THEN IF r2
            THEN IF req.storage = "throws"
                 THEN [GetRejected(table, 500) EXCEPT !.storageCalled = TRUE]
                 ELSE GetAnswered(200, TRUE)
            ELSE IF Truthy(record.cloudPath) THEN GetAnswered(200, FALSE)
            ELSE GetRejected(table, 500)
       ELSE IF r2
            THEN IF req.storage = "throws"
                 THEN [GetRejected(table, 500) EXCEPT !.storageCalled = TRUE]
                 ELSE GetAnswered(302, TRUE)
            ELSE IF ~Truthy(record.cloudPath) THEN GetRejected(table, 404)
            ELSE IF req.storage = "throws"
            THEN [GetRejected(table, 404) EXCEPT !.storageCalled = TRUE]
            ELSE GetAnswered(200, TRUE)

\* the GET handler of a table; req.storage: what storageService.getUrl or
\* storageService.download does when it is called
GetResult(table, req) ==
    LET rows == RowsOf(table, req.id)
        record == CHOOSE r \in rows : TRUE
        r2 == StorageLocation(record) = "r2" /\ Truthy(record.cloudPath)
    IN IF req.user = NULL THEN GetRejected(table, 401)
       ELSE IF InsideTry(table) /\ req.id = "" THEN GetRejected(table, 400)
       ELSE IF req.id \notin UuidIds THEN GetRejected(table, 400)
       ELSE IF rows = {} THEN GetRejected(table, 404)
       ELSE IF record.userId # req.user THEN GetRejected(table, 403)
       ELSE IF table = "transcriptions"
       \* part_006, lines 38-60: the URL of the audio and the json of the fields
       THEN IF r2
            THEN IF req.storage = "throws"
                 THEN [GetRejected(table, 500) EXCEPT !.storageCalled = TRUE]
                 ELSE GetAnswered(200, TRUE)
            ELSE IF Truthy(record.cloudPath) THEN GetAnswered(200, FALSE)
            ELSE GetRejected(table, 500)
       \* lines 44-78 of the other two: the redirect or the bytes of the file
       ELSE IF r2
            THEN IF req.storage = "throws"
                 THEN [GetRejected(table, 500) EXCEPT !.storageCalled = TRUE]
                 ELSE GetAnswered(302, TRUE)
            ELSE IF ~Truthy(record.cloudPath) THEN GetRejected(table, 404)
            ELSE IF req.storage = "throws"
            THEN [GetRejected(table, 404) EXCEPT !.storageCalled = TRUE]
            ELSE GetAnswered(200, TRUE)

\* the GET requests: the handlers do not look at demo mode
GetRequests == { r \in DeleteRequests : ~r.demo }

GET(table, req) ==
    LET res == GetResult(table, req)
    IN /\ ret' = [op |-> "GET", table |-> table, id |-> req.id, userId |-> req.user,
                  status |-> res.status, thrown |-> res.thrown, success |-> res.success,
                  disclosed |-> res.disclosed, storageCalled |-> res.storageCalled]
       /\ UNCHANGED <<now, settings, users, subscriptions, paymentHistory, pricingPlans,
                      usageVars, mediaVars, inflight>>

NextMedia ==
    \/ \E table \in MediaTables, req \in GetRequests : GET(table, req)
    \/ \E table \in MediaTables, req \in DeleteRequests : DELETE(table, req)

SpecMedia == InitDelete /\ [][NextMedia]_vars

\* the caller of the request owns the record
OwnedByCaller(record, caller) == caller # NULL /\ record.userId = caller

\* C30: a GET answers with data of a record, and a DELETE removes a record
\* or a stored file, only when the record belongs to the caller; a request
\* for a record of somebody else (or for no record) is answered with an
\* error, discloses nothing and leaves the rows and the stored files alone.
C30_OnlyTheOwnerReadsOrDeletes ==
    [][ ret'.op \in {"GET", "DELETE"} =>
          LET rows == RowsOf(ret'.table, ret'.id)
              foreign == rows = {} \/ \E r \in rows : ~OwnedByCaller(r, ret'.userId)
          IN /\ \A r \in media \ media' : OwnedByCaller(r, ret'.userId)
             /\ \A path \in storage \ storage' :
                   \E r \in rows : r.cloudPath = path /\ OwnedByCaller(r, ret'.userId)
             /\ foreign =>
                   /\ ~ret'.success
                   /\ ret'.status >= 400
                   /\ ret'.op = "GET" => ~ret'.disclosed
                   /\ UNCHANGED mediaVars ]_vars

\* u2 asked for a record of u1 and was refused; the record is still there
C30_Witness ==
    /\ ret.op = "GET"
    /\ ret.userId = "u2"
    /\ ret.thrown = 403
    /\ \E r \in RowsOf(ret.table, ret.id) : r.userId = "u1"

====
